---- MODULE Spec2Model ----
(***************************************************************************)
(* A model of the enrichment-and-persistence pipeline of car-tracker       *)
(* (src/scraper/bat_util.py, bat_api_scraper.py, bat_backfill_manual.py,   *)
(* bat_scraper.py).  Each component has its own specification over the     *)
(* variables it uses; the other variables keep their initial values.       *)
(*                                                                         *)
(* Concurrency is asyncio's: one action is one synchronous code segment    *)
(* of one task, from a resumption to the next await that suspends.         *)
(***************************************************************************)
EXTENDS Integers, Sequences, FiniteSets, TLC

\* ---------------------------------------------------------------- bounds
NTasks == 3          \* concurrent tasks calling the rate limiter
MaxTime == 7         \* the monotonic clock stops advancing here (ticks of one second)

Tasks == 1..NTasks

\* A value no field, timestamp or counter takes (Python's None, SQL's NULL).
NULL == -1

Max(a, b) == IF a >= b THEN a ELSE b
Min(a, b) == IF a <= b THEN a ELSE b

VARIABLES
    \* --- rate limiter (bat_util.py 272-315)
    now,                 \* time.monotonic(), in seconds
    rpm,                 \* _GEMINI_RATE_LIMIT_RPM
    gemini_last_call,    \* _gemini_last_call
    pc,                  \* pc[t]: where task t stands
    wake,                \* wake[t]: when task t's asyncio.sleep ends
    admit_prev,          \* the call-start admitted before the last one (NULL: none)
    admit_last,          \* the last call-start admitted (NULL: none)
    waiters,             \* the tasks asleep in _throttle_gemini_call, in entry order
    \* --- persistence (bat_util.py 655-699)
    store,               \* table auction: natural key -> stored row
    dbpc,                \* save_to_db: "idle" or "connected"
    nstmts,              \* upsert statements executed so far
    lastRec,             \* {} or {the record of the last upsert executed}
    prevRow,             \* {} or {the row that upsert found under its key}
    repeated,            \* the last upsert's record was the one before it too
    \* --- detail fetcher (bat_util.py 563-611)
    det_pc,              \* "start", "get", "sleep", "done"
    det_attempt,         \* attempt, the loop variable of range(DETAIL_MAX_RETRIES)
    det_gets,            \* session.get requests issued
    det_hist,            \* the outcomes of the attempts so far
    det_delay,           \* the delay of the last asyncio.sleep, in ms (NULL: none)
    det_sleeps,          \* asyncio.sleep calls made
    det_result,          \* "pending", "none" (return None), "mileage", "raised"
    \* --- classifier client (bat_util.py 24, 269, 294, 347-499)
    gemini_api_key,      \* bool(GEMINI_API_KEY)
    ai_cache,            \* _ai_make_model_cache: title -> {} (no entry) or {value}
    ai_fallback_count,   \* _ai_fallback_count
    cl_fn,               \* cl_fn[t]: the function task t is in, "mm" or "tr"
    cl_in,               \* cl_in[t]: its input
    cl_attempt,          \* cl_attempt[t]: attempt, the loop variable of range(3)
    cl_delay,            \* cl_delay[t]: the last backoff sleep of the invocation, ms
    cl_ext,              \* cl_ext[t]: generate_content_async calls of the invocation
    cl_bad,              \* cl_bad[t]: those of them that raised or gave nothing recognized
    cl_inv,              \* classifier invocations begun so far
    cl_since,            \* those begun since the last reset_ai_fallback_count()
    cl_prior,            \* cl_prior[t]: {} or {the outcome of the first call with this
                         \*   function and input}, if it had returned when t's began
    cl_ret,              \* cl_ret[t]: {} or {what the last invocation returned}
    completed,           \* completed[f][x]: {} or {what the first f(x) to return returned}
    \* --- backfill run (bat_backfill_manual.py 42-109)
    bf_pc,               \* "start", "gather", "done", "crashed"
    bf_concurrency,      \* concurrency
    bf_dry_run,          \* dry_run
    bf_nrows,            \* len(rows)
    bf_i,                \* i, the offset of the chunk
    bf_row,              \* bf_row[r]: where the worker of row r stands
    bf_auto,             \* bf_auto[r]: auto_flag of row r, 1/0 (NULL: none yet)
    bf_sem,              \* the value of sem
    bf_updated,          \* updated
    bf_manual,           \* column manual of row r in table auction (NULL: null)
    bf_exc_lines,        \* "Backfill exception" lines printed
    bf_summary,          \* <<>> or <<updated, len(rows)>> of "Backfill complete"
    bf_disp,             \* bf_disp[r]: how often process_row was called with row r
    bf_max_pool,         \* max_pool, the pool's max_size (NULL: not yet computed)
    bf_pool,             \* pool: "none" (not created), "open", "closed"
    \* --- ingest run (bat_api_scraper.py 109-169)
    in_pc,               \* "year_start", "parsing", "next_page", "saving", "done",
                         \*   or how main was left: "fetch_raised", "save_raised"
    in_year,             \* year
    in_page,             \* page_num
    in_pages_total,      \* pages_total
    in_listings,         \* listings: the ids of the items of the page
    in_item,             \* in_item[i]: where the task of item i of the page stands
    in_result,           \* in_result[i]: {} or {the record the task of item i returned}
    in_dropped,          \* ids of this year's results parse_listings has dropped
    all_records,         \* all_records
    in_next,             \* the index in all_records of save_to_db's next record
    in_fetched,          \* a listing page has been requested
    in_enriched,         \* ids parse_json_listing has returned a record for
    \* --- one caller of split_make_model (bat_util.py 318-344)
    sm_pc,               \* "idle", "ai" (awaiting ai_extract_make_model), "returned"
    sm_title,            \* raw_title, a sequence of words
    sm_ret,              \* {} or {<<make, model>>}, what the call returned
    sm_ext,              \* generate_content_async calls made for this call
    sm_count0,           \* _ai_fallback_count when the call began
    sm_inv,              \* calls of split_make_model begun so far
    \* --- one caller of _parse_transmission_from_model_response (bat_util.py 395-450)
    pr_pc,               \* "idle", "called", "returned"
    pr_text,             \* text
    pr_label,            \* what the call returned
    \* --- one execution of parse_json_listing, steps 4 and 7 (bat_api_scraper.py 60-88)
    pl_pc,               \* "idle", "detail", "classify", "returned"
    pl_item,             \* title, excerpt (words) and whether the item has a url
    pl_fetches,          \* calls of extract_mileage_from_detail_page made
    pl_detail,           \* what the detail fetcher returned (NULL: None or not called)
    pl_mileage,          \* mileage
    pl_label,            \* label the classifier recognized last, "raised" when it raised
    pl_auto,             \* what ai_identify_transmission gave (<<>>: not called yet)
    pl_manual,           \* manual: 1 for True, 0 for False, NULL for None
    \* --- main of bat_api_scraper.py and the fallback counter (lines 130-169)
    tl_pc,               \* "fetch", "gather", "save", "done", "raised"
    tl_year,             \* year
    tl_page,             \* page_num of the last page fetched (0: none yet)
    tl_pages_total,      \* pages_total
    tl_task,             \* tl_task[i]: parse_json_listing task of item i: "none",
                         \* "created", "running", "record", "norecord"
    tl_records,          \* all_records is not empty
    total_ai_fallbacks,  \* total_ai_fallbacks
    tl_calls             \* calls of ai_extract_make_model begun so far, all years

thrVars == <<now, rpm, gemini_last_call, pc, wake, admit_prev, admit_last, waiters>>
thrVarsButPc == <<now, rpm, gemini_last_call, wake, admit_prev, admit_last, waiters>>
dbVars == <<store, dbpc, nstmts, lastRec, prevRow, repeated>>
detVars == <<det_pc, det_attempt, det_gets, det_hist, det_delay, det_sleeps, det_result>>
clsVars == <<gemini_api_key, ai_cache, ai_fallback_count, cl_fn, cl_in, cl_attempt,
             cl_delay, cl_ext, cl_bad, cl_inv, cl_since, cl_prior, cl_ret, completed>>
bfVars == <<bf_pc, bf_concurrency, bf_dry_run, bf_nrows, bf_i, bf_row, bf_auto, bf_sem,
            bf_updated, bf_manual, bf_exc_lines, bf_summary, bf_disp, bf_max_pool,
            bf_pool>>
inVars == <<in_pc, in_year, in_page, in_pages_total, in_listings, in_item, in_result,
            in_dropped, all_records, in_next, in_fetched, in_enriched>>
smVars == <<sm_pc, sm_title, sm_ret, sm_ext, sm_count0, sm_inv>>
prVars == <<pr_pc, pr_text, pr_label>>
plVars == <<pl_pc, pl_item, pl_fetches, pl_detail, pl_mileage, pl_label, pl_auto,
            pl_manual>>
tlVars == <<tl_pc, tl_year, tl_page, tl_pages_total, tl_task, tl_records,
            total_ai_fallbacks, tl_calls>>
vars == <<thrVars, dbVars, detVars, clsVars, bfVars, inVars, smVars, prVars, plVars, tlVars>>

\* What the actions of one component leave alone.
notThr == <<dbVars, detVars, clsVars, bfVars, inVars, smVars, prVars, plVars, tlVars>>
notDb == <<thrVars, detVars, clsVars, bfVars, inVars, smVars, prVars, plVars, tlVars>>
notDet == <<thrVars, dbVars, clsVars, bfVars, inVars, smVars, prVars, plVars, tlVars>>
notCls == <<dbVars, detVars, bfVars, inVars, smVars, prVars, plVars, tlVars>>
notBf == <<thrVars, dbVars, detVars, clsVars, inVars, smVars, prVars, plVars, tlVars>>
notIn == <<thrVars, dbpc, nstmts, lastRec, prevRow, repeated, detVars, gemini_api_key,
           ai_cache, cl_fn, cl_in, cl_attempt, cl_delay, cl_ext, cl_bad, cl_inv, cl_since,
           cl_prior, cl_ret, completed, bfVars, smVars, prVars, plVars, tlVars>>
notSm == <<thrVars, dbVars, detVars, gemini_api_key, ai_cache, cl_fn, cl_in, cl_attempt,
           cl_delay, cl_ext, cl_bad, cl_inv, cl_since, cl_prior, cl_ret, completed,
           bfVars, inVars, prVars, plVars, tlVars>>
notPr == <<thrVars, dbVars, detVars, clsVars, bfVars, inVars, smVars, plVars, tlVars>>
notPl == <<thrVars, dbVars, detVars, clsVars, bfVars, inVars, smVars, prVars, tlVars>>
notTl == <<thrVars, dbVars, detVars, gemini_api_key, ai_cache, cl_fn, cl_in, cl_attempt,
           cl_delay, cl_ext, cl_bad, cl_inv, cl_since, cl_prior, cl_ret, completed,
           bfVars, inVars, smVars, prVars, plVars>>

\* ------------------------------------------------------------ persistence

\* The columns save_to_db writes besides the natural key (source, source_listing_id).
OverwriteCols == {"url", "title", "year", "make", "model", "original_owner", "excerpt"}
CoalesceCols == {"mileage", "sold_price", "sold_date", "status", "manual"}
Cols == OverwriteCols \cup CoalesceCols

\* The listings of the runs (source "bat", source_listing_id).
Keys == {"101", "102"}
\* Column values: 0 is a value like any other, NULL is the absence of one.
Val == {0, 7}

\* The record whose columns all hold v, but for the columns of nulls, which are None.
MkRecord(k, v, nulls) ==
    [source_listing_id |-> k,
     url            |-> IF "url" \in nulls THEN NULL ELSE v,
     title          |-> IF "title" \in nulls THEN NULL ELSE v,
     year           |-> IF "year" \in nulls THEN NULL ELSE v,
     make           |-> IF "make" \in nulls THEN NULL ELSE v,
     model          |-> IF "model" \in nulls THEN NULL ELSE v,
     original_owner |-> IF "original_owner" \in nulls THEN NULL ELSE v,
     mileage        |-> IF "mileage" \in nulls THEN NULL ELSE v,
     sold_price     |-> IF "sold_price" \in nulls THEN NULL ELSE v,
     sold_date      |-> IF "sold_date" \in nulls THEN NULL ELSE v,
     status         |-> IF "status" \in nulls THEN NULL ELSE v,
     excerpt        |-> IF "excerpt" \in nulls THEN NULL ELSE v,
     manual         |-> IF "manual" \in nulls THEN NULL ELSE v]

\* The columns that are None in a record: none, one (an enrichment field, or
\* the title), every enrichment field, or every other column.
NullPatterns ==
    {S \in SUBSET (CoalesceCols \cup {"title"}) : Cardinality(S) <= 1}
        \cup {CoalesceCols, OverwriteCols}

\* The records save_to_db is called with.
Records == {MkRecord(k, v, nulls) : k \in Keys, v \in Val, nulls \in NullPatterns}

\* SQL's COALESCE(a, b).
CoalesceOverwrites(a, b) == a
Coalesce(a, b) == IF a # NULL THEN a ELSE b

\* INSERT INTO auction (...) VALUES ($1..$14): the row of a key not yet stored.
InsertRow(r) ==
    [url |-> r.url, title |-> r.title, year |-> r.year, make |-> r.make,
     model |-> r.model, original_owner |-> r.original_owner,
     mileage |-> r.mileage, sold_price |-> r.sold_price, sold_date |-> r.sold_date,
     status |-> r.status, excerpt |-> r.excerpt, manual |-> r.manual]

\* ON CONFLICT (source, source_listing_id) DO UPDATE SET ...: the row of a stored key.
UpdateRowKeepsTitle(old, r) ==
    [url |-> r.url, title |-> Coalesce(r.title, old.title), year |-> r.year,
     make |-> r.make, model |-> r.model, original_owner |-> r.original_owner,
     mileage |-> Coalesce(r.mileage, old.mileage),
     sold_price |-> Coalesce(r.sold_price, old.sold_price),
     sold_date |-> Coalesce(r.sold_date, old.sold_date),
     status |-> Coalesce(r.status, old.status),
     excerpt |-> r.excerpt,
     manual |-> Coalesce(r.manual, old.manual)]
UpdateRowWrongColumn(old, r) ==
    [url |-> r.url, title |-> r.title, year |-> r.year, make |-> r.make,
     model |-> r.model, original_owner |-> r.original_owner,
     mileage |-> Coalesce(r.mileage, old.mileage),
     sold_price |-> Coalesce(r.sold_price, old.mileage),
     sold_date |-> Coalesce(r.sold_date, old.sold_date),
     status |-> Coalesce(r.status, old.status),
     excerpt |-> r.excerpt,
     manual |-> Coalesce(r.manual, old.manual)]
UpdateRow(old, r) ==
    [url |-> r.url, title |-> r.title, year |-> r.year, make |-> r.make,
     model |-> r.model, original_owner |-> r.original_owner,
     mileage |-> Coalesce(r.mileage, old.mileage),
     sold_price |-> Coalesce(r.sold_price, old.sold_price),
     sold_date |-> Coalesce(r.sold_date, old.sold_date),
     status |-> Coalesce(r.status, old.status),
     excerpt |-> r.excerpt,
     manual |-> Coalesce(r.manual, old.manual)]

\* One execution of the upsert statement on table st.
Upsert(st, r) ==
    LET k == r.source_listing_id IN
    IF k \in DOMAIN st
    THEN [st EXCEPT ![k] = UpdateRow(@, r)]
    ELSE [x \in DOMAIN st \cup {k} |-> IF x = k THEN InsertRow(r) ELSE st[x]]

\* bound on the statements of one behaviour
MaxStmts == 3

\* conn = await asyncpg.connect(**DB_CONFIG)
SaveConnect ==
    /\ dbpc = "idle"
    /\ nstmts < MaxStmts
    /\ dbpc' = "connected"
    /\ UNCHANGED <<store, nstmts, lastRec, prevRow, repeated, notDb>>

\* await conn.execute(upsert, r...) for the next record r of the list.
SaveExecute(r) ==
    /\ dbpc = "connected"
    /\ nstmts < MaxStmts
    /\ store' = Upsert(store, r)
    /\ nstmts' = nstmts + 1
    /\ lastRec' = {r}
    /\ prevRow' = IF r.source_listing_id \in DOMAIN store
                  THEN {store[r.source_listing_id]} ELSE {}
    /\ repeated' = (lastRec = {r})
    /\ UNCHANGED <<dbpc, notDb>>

\* The statement raises: nothing is written, finally closes, the exception leaves.
SaveExecuteRaises ==
    /\ dbpc = "connected"
    /\ dbpc' = "idle"
    /\ lastRec' = {}
    /\ prevRow' = {}
    /\ repeated' = FALSE
    /\ UNCHANGED <<store, nstmts, notDb>>

\* The list is exhausted: finally closes the connection.
SaveClose ==
    /\ dbpc = "connected"
    /\ dbpc' = "idle"
    /\ UNCHANGED <<store, nstmts, lastRec, prevRow, repeated, notDb>>

InitDbVars ==
    /\ store = <<>>
    /\ dbpc = "idle"
    /\ nstmts = 0
    /\ lastRec = {}
    /\ prevRow = {}
    /\ repeated = FALSE

\* ------------------------------------------- the classifier's response text

\* A response text is a sequence of tokens.  String literals are JSON strings
\* (quoted); the others are bare text.
KeyTokens == {"\"transmission\":", "\"note\":"}
StringLits ==
    {"\"automatic\"", "\"manual\"", "\"unknown\"", "\" Manual \"",
     "\"no manual mentioned\"", "\"automatic or manual\""}
BareWords == {"automatic", "manual", "unclear", "json", "Manual"}
Tokens == {"{", "}", ",", "<fence>", "1"} \cup KeyTokens \cup StringLits \cup BareWords

\* val.strip().lower() of a string literal's value.
StrValue(tok) ==
    CASE tok = "\"automatic\"" -> "automatic"
      [] tok = "\"manual\"" -> "manual"
      [] tok = "\" Manual \"" -> "manual"
      [] tok = "\"unknown\"" -> "unknown"
      [] tok = "\"no manual mentioned\"" -> "no manual mentioned"
      [] OTHER -> "automatic or manual"

\* re.search(r"\bautomatic\b", tok, re.IGNORECASE), and the same for manual.
HasAutoWord(tok) == tok \in {"automatic", "\"automatic\"", "\"automatic or manual\""}
HasManualWord(tok) ==
    tok \in {"manual", "Manual", "\"manual\"", "\" Manual \"",
             "\"no manual mentioned\"", "\"automatic or manual\""}

Labels == {"automatic", "manual"}
NoLabel == "None"

\* text.strip().strip(backtick): the code-fence tokens at both ends go.
RECURSIVE StripLeft(_)
StripLeft(txt) ==
    IF txt # <<>> /\ Head(txt) = "<fence>" THEN StripLeft(Tail(txt)) ELSE txt
RECURSIVE StripRight(_)
StripRight(txt) ==
    IF txt # <<>> /\ txt[Len(txt)] = "<fence>"
    THEN StripRight(SubSeq(txt, 1, Len(txt) - 1)) ELSE txt
StripFences(txt) == StripRight(StripLeft(txt))

\* The members of a JSON object between its braces: key value (, key value)*.
\* Yields the value of "transmission" (the last one), "absent" when no member
\* has that key, "nonstring" when its value is a number, "invalid" when the
\* tokens are no member list.
RECURSIVE ObjMembers(_, _)
ObjMembers(toks, acc) ==
    IF Len(toks) < 2 \/ toks[1] \notin KeyTokens \/ toks[2] \notin StringLits \cup {"1"}
    THEN "invalid"
    ELSE LET v == IF toks[1] # "\"transmission\":" THEN acc
                  ELSE IF toks[2] = "1" THEN "nonstring"
                  ELSE StrValue(toks[2])
             rest == SubSeq(toks, 3, Len(toks))
         IN IF rest = <<>> THEN v
            ELSE IF Head(rest) = "," THEN ObjMembers(Tail(rest), v)
            ELSE "invalid"

\* json.loads(s): [kind |-> "dict", transmission |-> ...], [kind |-> "str", ...],
\* [kind |-> "other"] (a number), or [kind |-> "error"] (JSONDecodeError).
JsonLoads(s) ==
    IF Len(s) = 1 /\ s[1] \in StringLits
        THEN [kind |-> "str", transmission |-> StrValue(s[1])]
    ELSE IF Len(s) = 1 /\ s[1] = "1"
        THEN [kind |-> "other", transmission |-> "absent"]
    ELSE IF Len(s) >= 2 /\ s[1] = "{" /\ s[Len(s)] = "}"
        THEN IF Len(s) = 2 THEN [kind |-> "dict", transmission |-> "absent"]
             ELSE LET v == ObjMembers(SubSeq(s, 2, Len(s) - 1), "absent") IN
                  IF v = "invalid" THEN [kind |-> "error", transmission |-> "absent"]
                  ELSE [kind |-> "dict", transmission |-> v]
    ELSE [kind |-> "error", transmission |-> "absent"]

\* s.find("{") and s.rfind("}"): 0 when there is none.
FirstIndex(s, tok) ==
    IF \E i \in 1..Len(s) : s[i] = tok
    THEN CHOOSE i \in 1..Len(s) : s[i] = tok /\ \A j \in 1..(i - 1) : s[j] # tok
    ELSE 0
LastIndex(s, tok) ==
    IF \E i \in 1..Len(s) : s[i] = tok
    THEN CHOOSE i \in 1..Len(s) : s[i] = tok /\ \A j \in (i + 1)..Len(s) : s[j] # tok
    ELSE 0

\* 1) Direct JSON parse (object or bare string).
ParseStrict(s) ==
    LET obj == JsonLoads(s) IN
    IF obj.kind \in {"dict", "str"} /\ obj.transmission \in Labels
    THEN obj.transmission ELSE NoLabel

\* 2) Extract first {...} slice and try again (objects only).
ParseSlice(s) ==
    LET start == FirstIndex(s, "{")
        end == LastIndex(s, "}")
    IN IF start # 0 /\ end # 0 /\ end > start
       THEN LET obj == JsonLoads(SubSeq(s, start, end)) IN
            IF obj.kind = "dict" /\ obj.transmission \in Labels
            THEN obj.transmission ELSE NoLabel
       ELSE NoLabel

\* 3) Bare word responses: re.fullmatch(r'"?automatic"?', s, re.IGNORECASE).
ParseBare(s) ==
    IF Len(s) = 1 /\ s[1] \in {"automatic", "\"automatic\""} THEN "automatic"
    ELSE IF Len(s) = 1 /\ s[1] \in {"manual", "Manual", "\"manual\""} THEN "manual"
    ELSE NoLabel

\* 4) Keyword sniffing (only if exactly one appears).
ParseSniffAnyWord(s) ==
    IF \E i \in 1..Len(s) : HasAutoWord(s[i]) THEN "automatic"
    ELSE IF \E i \in 1..Len(s) : HasManualWord(s[i]) THEN "manual"
    ELSE NoLabel
ParseSniff(s) ==
    LET has_auto == \E i \in 1..Len(s) : HasAutoWord(s[i])
        has_manual == \E i \in 1..Len(s) : HasManualWord(s[i])
    IN IF has_auto # has_manual
       THEN (IF has_auto THEN "automatic" ELSE "manual")
       ELSE NoLabel

\* _parse_transmission_from_model_response(text)
ParseTransmission(text) ==
    IF text = <<>> THEN NoLabel
    ELSE LET s == StripFences(text) IN
         IF ParseStrict(s) # NoLabel THEN ParseStrict(s)
         ELSE IF ParseSlice(s) # NoLabel THEN ParseSlice(s)
         ELSE IF ParseBare(s) # NoLabel THEN ParseBare(s)
         ELSE ParseSniff(s)

MaxTextLen == 2      \* tokens of the longest text built from all tokens

\* The response texts of the runs.
Texts ==
    {<<>>,
     <<"{", "\"transmission\":", "\"automatic\"", "}">>,
     <<"{", "\"transmission\":", "\"manual\"", "}">>,
     <<"{", "\"transmission\":", "\"unknown\"", "}">>,
     <<"{", "\"transmission\":", "\" Manual \"", "}">>,
     <<"{", "\"transmission\":", "1", "}">>,
     <<"{", "\"transmission\":", "\"unknown\"", ",", "\"note\":", "\"no manual mentioned\"", "}">>,
     <<"{", "\"transmission\":", "\"unknown\"", ",", "\"note\":", "\"automatic or manual\"", "}">>,
     <<"{", "\"transmission\":", "\"automatic\"", ",", "\"note\":", "\"no manual mentioned\"", "}">>,
     <<"{", "\"note\":", "\"automatic\"", "}">>,
     <<"{", "}">>,
     <<"{", "\"transmission\":", "\"manual\"">>,
     <<"<fence>", "json", "{", "\"transmission\":", "\"manual\"", "}", "<fence>">>,
     <<"unclear", "{", "\"transmission\":", "\"manual\"", "}", "automatic">>,
     <<"\"automatic\"">>,
     <<"\" Manual \"">>,
     <<"manual">>,
     <<"Manual">>,
     <<"1">>,
     <<"unclear", "automatic", "unclear">>,
     <<"automatic", "unclear", "manual">>,
     <<"unclear">>}

\* The texts the parser is called with: those, and every text of at most
\* MaxTextLen tokens.
ParserTexts == Texts \cup UNION {[1..n -> Tokens] : n \in 0..MaxTextLen}

\* _parse_transmission_from_model_response is called with text ...
ParserCall(text) ==
    /\ pr_pc = "idle"
    /\ pr_pc' = "called"
    /\ pr_text' = text
    /\ UNCHANGED <<pr_label, notPr>>

\* ... and returns.
ParserReturn ==
    /\ pr_pc = "called"
    /\ pr_pc' = "returned"
    /\ pr_label' = ParseTransmission(pr_text)
    /\ UNCHANGED <<pr_text, notPr>>

\* The caller goes on to the next response.
ParserNext ==
    /\ pr_pc = "returned"
    /\ pr_pc' = "idle"
    /\ pr_text' = <<>>
    /\ pr_label' = NoLabel
    /\ UNCHANGED notPr

InitPrVars ==
    /\ pr_pc = "idle"
    /\ pr_text = <<>>
    /\ pr_label = NoLabel

InitPlVars ==
    /\ pl_pc = "idle"
    /\ pl_item = [title |-> <<>>, excerpt |-> <<>>, url |-> FALSE]
    /\ pl_fetches = 0
    /\ pl_detail = NULL
    /\ pl_mileage = NULL
    /\ pl_label = NoLabel
    /\ pl_auto = <<>>
    /\ pl_manual = NULL

\* --------------------------------------------------------- detail fetcher

\* DETAIL_MAX_RETRIES, DETAIL_BACKOFF_BASE (1.8) in thousandths.
DETAIL_MAX_RETRIES == 3
DETAIL_BACKOFF_BASE == 1800

\* What one session.get attempt can end in.
TransientStatus == {"429", "500", "502", "503", "504"}
Outcomes ==
    TransientStatus \cup
    {"403", "404", "304", "200_mileage", "200_no_mileage", "200_empty",
     "timeout", "client_error", "redirect_loop", "other_exception"}
\* The outcomes the fetcher retries.
Retryable == TransientStatus \cup {"403", "404", "timeout", "client_error"}

\* random.uniform(0, 0.5), in ms.
Jitters == {0, 250, 500}

\* DETAIL_BACKOFF_BASE ** n, in ms.
RECURSIVE BackoffPow(_)
BackoffPow(n) == IF n = 0 THEN 1000 ELSE (BackoffPow(n - 1) * DETAIL_BACKOFF_BASE) \div 1000

\* The delay the code computes for a failed attempt (ms).
DetailDelay(o, attempt, jitter) ==
    IF o \in TransientStatus THEN Min(BackoffPow(attempt), 10000) + jitter
    ELSE IF o = "403" THEN 2000 + 1000 * attempt
    ELSE Min(BackoffPow(attempt), 8000)

\* How the body of the loop treats an outcome: "retry" (sleep and go on, or give
\* up on the last attempt), "abort" (return None at once), "html" (break with
\* the page), "raise" (no except clause catches it).
\* raise_for_status turns every other status >= 400 into a ClientResponseError,
\* which the ClientError clause catches.
OutcomeClassRedirectRetries(o) ==
    IF o \in Retryable \cup {"redirect_loop"} THEN "retry"
    ELSE IF o = "other_exception" THEN "raise"
    ELSE "html"
OutcomeClass403Aborts(o) ==
    IF o = "403" THEN "abort"
    ELSE IF o \in Retryable THEN "retry"
    ELSE IF o = "redirect_loop" THEN "abort"
    ELSE IF o = "other_exception" THEN "raise"
    ELSE "html"
OutcomeClass(o) ==
    IF o \in Retryable THEN "retry"
    ELSE IF o = "redirect_loop" THEN "abort"
    ELSE IF o = "other_exception" THEN "raise"
    ELSE "html"

\* attempt == DETAIL_MAX_RETRIES - 1
IsLastAttempt(a) == a = DETAIL_MAX_RETRIES - 1

\* What the function returns once it holds the page (lines 610-641).
ParseDetailWithoutHtmlGuard(o) ==
    IF o = "200_mileage" THEN "mileage"
    ELSE IF o \in {"200_empty", "304"} THEN "raised"
    ELSE "none"
ParseDetail(o) == IF o = "200_mileage" THEN "mileage" ELSE "none"

\* for attempt in range(DETAIL_MAX_RETRIES): the loop is entered or not.
DetailStart ==
    /\ det_pc = "start"
    /\ IF det_attempt < DETAIL_MAX_RETRIES
       THEN det_pc' = "get" /\ UNCHANGED det_result
       ELSE det_pc' = "done" /\ det_result' = "none"
    /\ UNCHANGED <<det_attempt, det_gets, det_hist, det_delay, det_sleeps, notDet>>

\* One session.get and what the loop body does with its outcome.
DetailAttempt(o, jitter) ==
    /\ det_pc = "get"
    /\ det_gets' = det_gets + 1
    /\ det_hist' = Append(det_hist, o)
    /\ LET cls == OutcomeClass(o) IN
         CASE cls = "retry" ->
                IF IsLastAttempt(det_attempt)
                THEN /\ det_pc' = "done" /\ det_result' = "none"
                     /\ UNCHANGED <<det_delay, det_sleeps>>
                ELSE /\ det_pc' = "sleep"
                     /\ det_delay' = DetailDelay(o, det_attempt, jitter)
                     /\ det_sleeps' = det_sleeps + 1
                     /\ UNCHANGED det_result
           [] cls = "abort" ->
                /\ det_pc' = "done" /\ det_result' = "none"
                /\ UNCHANGED <<det_delay, det_sleeps>>
           [] cls = "raise" ->
                /\ det_pc' = "done" /\ det_result' = "raised"
                /\ UNCHANGED <<det_delay, det_sleeps>>
           [] OTHER ->
                /\ det_pc' = "done" /\ det_result' = ParseDetail(o)
                /\ UNCHANGED <<det_delay, det_sleeps>>
    /\ UNCHANGED <<det_attempt, notDet>>

\* The sleep ends and the loop takes its next attempt, or is exhausted
\* (html is still None: return None).
DetailResume ==
    /\ det_pc = "sleep"
    /\ det_attempt' = det_attempt + 1
    /\ IF det_attempt + 1 < DETAIL_MAX_RETRIES
       THEN det_pc' = "get" /\ UNCHANGED det_result
       ELSE det_pc' = "done" /\ det_result' = "none"
    /\ UNCHANGED <<det_gets, det_hist, det_delay, det_sleeps, notDet>>

InitDetVars ==
    /\ det_pc = "start"
    /\ det_attempt = 0
    /\ det_gets = 0
    /\ det_hist = <<>>
    /\ det_delay = NULL
    /\ det_sleeps = 0
    /\ det_result = "pending"

\* ------------------------------------------------------- the rate limiter

\* The limits the runs are configured with (GEMINI_RATE_LIMIT_RPM, requests/minute).
RPMValues == {20, 30}

\* _gemini_interval = 60.0 / max(1, _GEMINI_RATE_LIMIT_RPM), in seconds.
GeminiInterval(r) == 60 \div Max(1, r)
gemini_interval == GeminiInterval(rpm)

\* The admission is recorded when _throttle_gemini_call returns.
Admit(t) ==
    /\ gemini_last_call' = now
    /\ admit_prev' = admit_last
    /\ admit_last' = now
    /\ pc' = [pc EXCEPT ![t] = "call"]

\* A call that goes on to the caller's request without passing the limiter.
ThrottleSkipped(t) ==
    /\ pc' = [pc EXCEPT ![t] = "call"]
    /\ UNCHANGED <<now, rpm, gemini_last_call, wake, admit_prev, admit_last, waiters>>

\* _throttle_gemini_call up to its await: reads the clock and the last call,
\* and either sleeps or, with nothing to wait for, stamps and returns at once.
ThrottleWaitSinceStart(last) == gemini_interval - now
ThrottleWait(last) == gemini_interval - (now - last)

ThrottleBegin(t) ==
    /\ LET wait == ThrottleWait(gemini_last_call) IN
         IF wait > 0
         THEN /\ pc' = [pc EXCEPT ![t] = "sleep"]
              /\ wake' = [wake EXCEPT ![t] = now + wait]
              /\ waiters' = Append(waiters, t)
              /\ UNCHANGED <<gemini_last_call, admit_prev, admit_last>>
         ELSE /\ Admit(t)
              /\ UNCHANGED <<wake, waiters>>
    /\ UNCHANGED <<now, rpm>>

\* A task calls _throttle_gemini_call.
ThrottleEnter(t) ==
    /\ pc[t] = "throttle"
    /\ ThrottleBegin(t)
    /\ UNCHANGED notThr

\* A sequential caller: it calls _throttle_gemini_call when no other call of
\* it is under way.
SequentialEnter(t) ==
    /\ \A u \in Tasks : pc[u] # "sleep"
    /\ ThrottleEnter(t)

\* The sleep is over: _gemini_last_call = time.monotonic(), and return.
ThrottleWake(t) ==
    /\ pc[t] = "sleep"
    /\ now >= wake[t]
    /\ Admit(t)
    /\ wake' = [wake EXCEPT ![t] = 0]
    /\ waiters' = SelectSeq(waiters, LAMBDA u : u # t)
    /\ UNCHANGED <<now, rpm, notThr>>

\* The caller's external call, begun at the admission, ends.
CallerReturn(t) ==
    /\ pc[t] = "call"
    /\ pc' = [pc EXCEPT ![t] = "done"]
    /\ UNCHANGED <<now, rpm, gemini_last_call, wake, admit_prev, admit_last, waiters,
                   notThr>>

\* Time passes.
Tick ==
    /\ now < MaxTime
    /\ now' = now + 1
    /\ UNCHANGED <<rpm, gemini_last_call, pc, wake, admit_prev, admit_last, waiters,
                   notThr>>

\* The module's globals as the import leaves them (bat_util.py 269-294).
InitThrVars ==
    /\ now = 0
    /\ gemini_last_call = 0
    /\ wake = [t \in Tasks |-> 0]
    /\ admit_prev = NULL
    /\ admit_last = NULL
    /\ waiters = <<>>


\* ------------------------------------------------------ classifier client

NClients == 1        \* tasks calling the classifier
MaxInv == 2          \* classifier invocations of one behaviour
Clients == 1..NClients

\* The titles (and title/excerpt pairs) the classifier is called with.
Inputs == {"Tatra 603", "Hardtop"}
Fns == {"mm", "tr"}

\* Return values: (make, model) of ai_extract_make_model; True (automatic),
\* False (manual) or None of ai_identify_transmission.
NonePair == <<"None", "None">>
TrTrue == <<"True">>
TrFalse == <<"False">>
TrNone == <<"None">>
TrRaised == <<"raised">>  \* the call raised

\* What generate_content_async gives ai_extract_make_model: it raises, or
\* response.text is JSON text that json.loads parses to one of these, or is not.
JsonDicts ==
    {[type |-> "dict", make |-> "Tatra", model |-> "603"],
     [type |-> "dict", make |-> "Tatra", model |-> "613"],
     [type |-> "dict", make |-> "Tatra", model |-> "None"],
     [type |-> "dict", make |-> "None", model |-> "None"]}
JsonScalar == [type |-> "scalar", make |-> "None", model |-> "None"]
EmptyDict == [type |-> "dict", make |-> "None", model |-> "None"]
MmReplies ==
    {[raises |-> TRUE, valid |-> FALSE, items |-> <<>>, islist |-> FALSE]}
    \cup {[raises |-> FALSE, valid |-> FALSE, items |-> <<>>, islist |-> FALSE]}
    \cup {[raises |-> FALSE, valid |-> TRUE, items |-> <<d>>, islist |-> FALSE] :
            d \in JsonDicts \cup {JsonScalar}}
    \cup {[raises |-> FALSE, valid |-> TRUE, items |-> its, islist |-> TRUE] :
            its \in {<<>>, <<JsonScalar>>,
                     <<[type |-> "dict", make |-> "Tatra", model |-> "603"]>>}}

\* except Exception as e: every exception of the try block is caught.
CaughtOnlyJsonErrors(exc) == exc = "JSONDecodeError"
Caught(exc) == TRUE

\* Lines 376-388 on a reply: the exception the try block ends in ("none" when
\* it ends in none) and the result_tuple.
MmParse(reply) ==
    IF reply.raises THEN [exc |-> "APIError", val |-> NonePair]
    ELSE IF ~reply.valid THEN [exc |-> "JSONDecodeError", val |-> NonePair]
    ELSE LET data == IF reply.islist /\ reply.items # <<>> THEN reply.items[1]
                     ELSE IF ~reply.islist /\ reply.items[1].type = "dict"
                          THEN reply.items[1]
                     ELSE EmptyDict
         IN IF data.type # "dict" THEN [exc |-> "AttributeError", val |-> NonePair]
            ELSE [exc |-> "none", val |-> <<data.make, data.model>>]

\* What generate_content_async gives ai_identify_transmission: it raises, or
\* the response holds one of these texts (a recognized label of either kind,
\* the service's "unknown", unknown with a note, malformed JSON, no text).
ReplyTexts ==
    {<<>>,
     <<"{", "\"transmission\":", "\"automatic\"", "}">>,
     <<"{", "\"transmission\":", "\"manual\"", "}">>,
     <<"{", "\"transmission\":", "\"unknown\"", "}">>,
     <<"{", "\"transmission\":", "\"unknown\"", ",", "\"note\":", "\"automatic or manual\"", "}">>,
     <<"{", "\"transmission\":", "\"manual\"">>,
     <<"unclear">>}
TrReplies ==
    {[raises |-> TRUE, text |-> <<>>]}
    \cup {[raises |-> FALSE, text |-> x] : x \in ReplyTexts}

\* 0.5 * (2**attempt), in ms.
RECURSIVE Pow2(_)
Pow2(n) == IF n = 0 THEN 1 ELSE 2 * Pow2(n - 1)
TrBackoff(attempt) == 500 * Pow2(attempt)

\* for attempt in range(3)
TR_ATTEMPTS == 3

\* _ai_make_model_cache[raw_title] = val
CacheStoreOnlyRecognized(cache, x, val) ==
    IF val = NonePair THEN cache ELSE [cache EXCEPT ![x] = {val}]
CacheStore(cache, x, val) == [cache EXCEPT ![x] = {val}]

\* An invocation returns val.
Return(t, f, x, val) ==
    /\ pc' = [pc EXCEPT ![t] = "returned"]
    /\ cl_ret' = [cl_ret EXCEPT ![t] = {val}]
    /\ completed' = [completed EXCEPT ![f][x] = IF @ = {} THEN {val} ELSE @]

\* An invocation begins.
Begin(t, f, x) ==
    /\ pc[t] = "idle"
    /\ cl_inv < MaxInv
    /\ cl_inv' = cl_inv + 1
    /\ cl_since' = cl_since + 1
    /\ cl_fn' = [cl_fn EXCEPT ![t] = f]
    /\ cl_in' = [cl_in EXCEPT ![t] = x]
    /\ cl_prior' = [cl_prior EXCEPT ![t] = completed[f][x]]
    /\ UNCHANGED <<cl_attempt, cl_delay, cl_ext, cl_bad>>

\* The caller has its value and goes on: the invocation's locals are gone.
CallerContinue(t) ==
    /\ pc[t] = "returned"
    /\ pc' = [pc EXCEPT ![t] = "idle"]
    /\ cl_fn' = [cl_fn EXCEPT ![t] = "mm"]
    /\ cl_in' = [cl_in EXCEPT ![t] = "Hardtop"]
    /\ cl_attempt' = [cl_attempt EXCEPT ![t] = 0]
    /\ cl_delay' = [cl_delay EXCEPT ![t] = NULL]
    /\ cl_ext' = [cl_ext EXCEPT ![t] = 0]
    /\ cl_bad' = [cl_bad EXCEPT ![t] = 0]
    /\ cl_prior' = [cl_prior EXCEPT ![t] = {}]
    /\ cl_ret' = [cl_ret EXCEPT ![t] = {}]
    /\ UNCHANGED <<gemini_api_key, ai_cache, ai_fallback_count, cl_inv, cl_since,
                   completed, thrVarsButPc, notCls>>

\* reset_ai_fallback_count(), which main calls between two years, when the
\* tasks of parse_listings have all ended (bat_api_scraper.py 158-161).
ResetCount ==
    /\ \A t \in Clients : pc[t] = "idle"
    /\ cl_since > 0
    /\ ai_fallback_count' = 0
    /\ cl_since' = 0
    /\ UNCHANGED <<gemini_api_key, ai_cache, cl_fn, cl_in, cl_attempt, cl_delay, cl_ext,
                   cl_bad, cl_inv, cl_prior, cl_ret, completed, thrVars, notCls>>

\* ai_extract_make_model(raw_title) up to its first suspension (lines 352-376).
MmStartKeyUnchecked(t, x) ==
    /\ Begin(t, "mm", x)
    /\ ai_fallback_count' = ai_fallback_count + 1
    /\ IF ai_cache[x] # {}
       THEN /\ Return(t, "mm", x, CHOOSE v \in ai_cache[x] : TRUE)
            /\ UNCHANGED <<ai_cache, thrVarsButPc>>
       ELSE /\ ThrottleBegin(t)
            /\ UNCHANGED <<ai_cache, cl_ret, completed>>
    /\ UNCHANGED <<gemini_api_key, notCls>>
MmStart(t, x) ==
    /\ Begin(t, "mm", x)
    /\ ai_fallback_count' = ai_fallback_count + 1
    /\ IF ~gemini_api_key
       THEN /\ ai_cache' = CacheStore(ai_cache, x, NonePair)
            /\ Return(t, "mm", x, NonePair)
            /\ UNCHANGED thrVarsButPc
       ELSE IF ai_cache[x] # {}
       THEN /\ Return(t, "mm", x, CHOOSE v \in ai_cache[x] : TRUE)
            /\ UNCHANGED <<ai_cache, thrVarsButPc>>
       ELSE /\ ThrottleBegin(t)
            /\ UNCHANGED <<ai_cache, cl_ret, completed>>
    /\ UNCHANGED <<gemini_api_key, notCls>>

\* generate_content_async ends; the rest of the try block, or the except clause.
MmCallReturn(t, reply) ==
    /\ pc[t] = "call" /\ cl_fn[t] = "mm"
    /\ cl_ext' = [cl_ext EXCEPT ![t] = @ + 1]
    /\ cl_bad' = [cl_bad EXCEPT ![t] = IF MmParse(reply).exc # "none" THEN @ + 1 ELSE @]
    /\ LET res == MmParse(reply) IN
         IF res.exc = "none" \/ Caught(res.exc)
         THEN /\ ai_cache' = CacheStore(ai_cache, cl_in[t], res.val)
              /\ Return(t, "mm", cl_in[t], res.val)
         ELSE /\ pc' = [pc EXCEPT ![t] = "raised"]
              /\ UNCHANGED <<ai_cache, cl_ret, completed>>
    /\ UNCHANGED <<gemini_api_key, ai_fallback_count, cl_fn, cl_in, cl_attempt, cl_delay,
                   cl_inv, cl_since, cl_prior, thrVarsButPc, notCls>>

\* ai_identify_transmission(raw_title, excerpt) up to its first suspension.
TrStart(t, x) ==
    /\ Begin(t, "tr", x)
    /\ IF ~gemini_api_key
       THEN /\ Return(t, "tr", x, TrNone)
            /\ UNCHANGED thrVarsButPc
       ELSE /\ ThrottleBegin(t)
            /\ UNCHANGED <<cl_ret, completed>>
    /\ UNCHANGED <<gemini_api_key, ai_cache, ai_fallback_count, notCls>>

\* What an attempt of ai_identify_transmission ends in: the value to return, or
\* "retry" (sleep, then the next attempt).
TrAfterAttempt(reply, attempt) ==
    LET label == IF reply.raises THEN NoLabel ELSE ParseTransmission(reply.text) IN
    IF ~reply.raises /\ label = "automatic" THEN TrTrue
    ELSE IF ~reply.raises /\ label = "manual" THEN TrFalse
    ELSE IF attempt < TR_ATTEMPTS - 1 THEN <<"retry">>
    ELSE TrNone

\* generate_content_async ends in ai_identify_transmission (lines 482-499).
TrCallReturn(t, reply) ==
    /\ pc[t] = "call" /\ cl_fn[t] = "tr"
    /\ cl_ext' = [cl_ext EXCEPT ![t] = @ + 1]
    /\ cl_bad' = [cl_bad EXCEPT ![t] =
         IF reply.raises \/ ParseTransmission(reply.text) = NoLabel THEN @ + 1 ELSE @]
    /\ IF reply.raises /\ ~Caught("APIError")
       THEN /\ pc' = [pc EXCEPT ![t] = "raised"]
            /\ UNCHANGED <<cl_ret, completed, cl_delay>>
       ELSE LET out == TrAfterAttempt(reply, cl_attempt[t]) IN
            IF out = <<"retry">>
            THEN /\ pc' = [pc EXCEPT ![t] = "backoff"]
                 /\ cl_delay' = [cl_delay EXCEPT ![t] = TrBackoff(cl_attempt[t])]
                 /\ UNCHANGED <<cl_ret, completed>>
            ELSE /\ Return(t, "tr", cl_in[t], out)
                 /\ UNCHANGED cl_delay
    /\ UNCHANGED <<gemini_api_key, ai_cache, ai_fallback_count, cl_fn, cl_in, cl_attempt,
                   cl_inv, cl_since, cl_prior, thrVarsButPc, notCls>>

\* The backoff sleep ends: continue, the next attempt calls the limiter.
TrBackoffEnd(t) ==
    /\ pc[t] = "backoff"
    /\ cl_attempt' = [cl_attempt EXCEPT ![t] = @ + 1]
    /\ cl_delay' = [cl_delay EXCEPT ![t] = NULL]
    /\ ThrottleBegin(t)
    /\ UNCHANGED <<gemini_api_key, ai_cache, ai_fallback_count, cl_fn, cl_in,
                   cl_ext, cl_bad, cl_inv, cl_since, cl_prior, cl_ret, completed, notCls>>

\* Time passes while a task of the classifier is suspended, as long as the
\* limiter can still tell the difference: a sleeper is not yet due, or the
\* interval since the last admission has not yet elapsed.
ClsTick ==
    /\ \E t \in Clients : pc[t] \in {"sleep", "call", "backoff"}
    /\ \/ \E t \in Clients : pc[t] = "sleep" /\ now < wake[t]
       \/ now - gemini_last_call < gemini_interval
    /\ Tick

\* Time passes while a task of a parse_listings batch is suspended.
BatchTick ==
    /\ \E t \in Tasks : pc[t] \in {"sleep", "call"}
    /\ \/ \E t \in Tasks : pc[t] = "sleep" /\ now < wake[t]
       \/ now - gemini_last_call < gemini_interval
    /\ Tick

InitClsVars ==
    /\ ai_cache = [x \in Inputs |-> {}]
    /\ ai_fallback_count = 0
    /\ cl_fn = [t \in Tasks |-> "mm"]
    /\ cl_in = [t \in Tasks |-> "Hardtop"]
    /\ cl_attempt = [t \in Tasks |-> 0]
    /\ cl_delay = [t \in Tasks |-> NULL]
    /\ cl_ext = [t \in Tasks |-> 0]
    /\ cl_bad = [t \in Tasks |-> 0]
    /\ cl_inv = 0
    /\ cl_since = 0
    /\ cl_prior = [t \in Tasks |-> {}]
    /\ cl_ret = [t \in Tasks |-> {}]
    /\ completed = [f \in Fns |-> [x \in Inputs |-> {}]]

\* ------------------------------------------------------------ backfill run
\* bat_backfill_manual.py: process_row 42-69, backfill_manual 72-109.

MaxRows == 5         \* candidate rows fetch_candidates returns at most
MaxConc == 2         \* the largest configured concurrency
MaxPoolConc == 70    \* the largest concurrency a pool is sized for
ChunkFloor == 3      \* the least chunk size: the 100 of line 95, scaled down with
                     \*   the number of rows so that a run has a second chunk
Rows == 1..MaxRows
Concurrencies == 1..MaxConc

\* CHUNK = max(100, concurrency * 2)
Chunk(c) == Max(ChunkFloor, c * 2)
\* rows[i : i + CHUNK], as row numbers
BatchFromFirstRow(i, n, c) == {r \in Rows : r <= Min(i + Chunk(c), n)}
Batch(i, n, c) == {r \in Rows : i < r /\ r <= Min(i + Chunk(c), n)}

\* max_pool = max(4, min(32, concurrency // 2))
MaxPoolUnclamped(c) == c \div 2
MaxPool(c) == Max(4, Min(32, c \div 2))

\* async with sem: the semaphore lets a worker in while its value is positive.
SemAlwaysFree(v) == TRUE
SemFree(v) == v > 0

\* The workers of the batch that process_row has begun for and not ended.
InFlight == {r \in Rows : bf_row[r] \in {"ai", "db"}}

\* create_pool and fetch_candidates: n rows have manual IS NULL.  With none the
\* function returns; else sem, updated and the tasks of the first chunk.
BackfillFetch(n) ==
    /\ bf_pc = "start"
    /\ bf_max_pool' = MaxPool(bf_concurrency)
    /\ bf_pool' = IF n = 0 THEN "closed" ELSE "open"
    /\ bf_nrows' = n
    /\ IF n = 0
       THEN /\ bf_pc' = "done"
            /\ UNCHANGED <<bf_row, bf_sem>>
       ELSE /\ bf_pc' = "gather"
            /\ bf_sem' = bf_concurrency
            /\ bf_row' = [r \in Rows |->
                 IF r \in Batch(0, n, bf_concurrency) THEN "waiting" ELSE "none"]
    /\ UNCHANGED <<bf_concurrency, bf_dry_run, bf_i, bf_auto, bf_updated, bf_manual,
                   bf_exc_lines, bf_summary, bf_disp, notBf>>

\* create_pool raises and there is no pool, or fetch_candidates raises and
\* finally closes the pool.
BackfillFetchRaises ==
    /\ bf_pc = "start"
    /\ bf_pc' = "crashed"
    /\ bf_max_pool' = MaxPool(bf_concurrency)
    /\ bf_pool' \in {"none", "closed"}
    /\ UNCHANGED <<bf_concurrency, bf_dry_run, bf_nrows, bf_i, bf_row, bf_auto, bf_sem,
                   bf_updated, bf_manual, bf_exc_lines, bf_summary, bf_disp, notBf>>

\* worker(r) enters sem and process_row runs to its first suspension.  Without
\* a key ai_identify_transmission returns None at once, and so process_row 0.
WorkerAcquire(r) ==
    /\ bf_pc = "gather"
    /\ bf_row[r] = "waiting"
    /\ SemFree(bf_sem)
    /\ IF ~gemini_api_key
       THEN /\ bf_row' = [bf_row EXCEPT ![r] = "ret0"]
            /\ UNCHANGED bf_sem
       ELSE /\ bf_row' = [bf_row EXCEPT ![r] = "ai"]
            /\ bf_sem' = bf_sem - 1
    /\ bf_disp' = [bf_disp EXCEPT ![r] = @ + 1]
    /\ UNCHANGED <<bf_pc, bf_concurrency, bf_dry_run, bf_nrows, bf_i, bf_auto,
                   bf_updated, bf_manual, bf_exc_lines, bf_summary, bf_max_pool, bf_pool,
                   notBf>>

\* ai_identify_transmission returns out to process_row (lines 58-67).
RowAiReturnNoDryRun(r, out) ==
    /\ bf_row[r] = "ai"
    /\ IF out \in {TrNone, TrRaised}
       THEN /\ bf_row' = [bf_row EXCEPT ![r] = "ret0"]
            /\ bf_sem' = bf_sem + 1
            /\ UNCHANGED bf_auto
       ELSE /\ bf_auto' = [bf_auto EXCEPT ![r] = IF out = TrTrue THEN 1 ELSE 0]
            /\ bf_row' = [bf_row EXCEPT ![r] = "db"]
            /\ UNCHANGED bf_sem
    /\ UNCHANGED <<bf_pc, bf_concurrency, bf_dry_run, bf_nrows, bf_i, bf_updated,
                   bf_manual, bf_exc_lines, bf_summary, bf_disp, bf_max_pool,
                   bf_pool, notBf>>
RowAiReturn(r, out) ==
    /\ bf_row[r] = "ai"
    /\ IF out \in {TrNone, TrRaised}
       THEN /\ bf_row' = [bf_row EXCEPT ![r] = "ret0"]
            /\ bf_sem' = bf_sem + 1
            /\ UNCHANGED bf_auto
       ELSE /\ bf_auto' = [bf_auto EXCEPT ![r] = IF out = TrTrue THEN 1 ELSE 0]
            /\ IF bf_dry_run
               THEN /\ bf_row' = [bf_row EXCEPT ![r] = "ret1"]
                    /\ bf_sem' = bf_sem + 1
               ELSE /\ bf_row' = [bf_row EXCEPT ![r] = "db"]
                    /\ UNCHANGED bf_sem
    /\ UNCHANGED <<bf_pc, bf_concurrency, bf_dry_run, bf_nrows, bf_i, bf_updated,
                   bf_manual, bf_exc_lines, bf_summary, bf_disp, bf_max_pool,
                   bf_pool, notBf>>

\* pool.acquire and UPDATE auction SET manual (lines 67-69): done, or it raises
\* and the exception leaves process_row and worker, which releases sem.
RowDbReturn(r, ok) ==
    /\ bf_row[r] = "db"
    /\ bf_sem' = bf_sem + 1
    /\ IF ok
       THEN /\ bf_manual' = [bf_manual EXCEPT ![r] = 1 - bf_auto[r]]
            /\ bf_row' = [bf_row EXCEPT ![r] = "ret1"]
       ELSE /\ bf_row' = [bf_row EXCEPT ![r] = "exc"]
            /\ UNCHANGED bf_manual
    /\ UNCHANGED <<bf_pc, bf_concurrency, bf_dry_run, bf_nrows, bf_i, bf_auto,
                   bf_updated, bf_exc_lines, bf_summary, bf_disp, bf_max_pool,
                   bf_pool, notBf>>

\* gather returns: the loop over results, then the next chunk, or the summary
\* and finally pool.close (lines 100-109).
GatherDone ==
    /\ bf_pc = "gather"
    /\ LET batch == Batch(bf_i, bf_nrows, bf_concurrency)
           upd == bf_updated + Cardinality({r \in batch : bf_row[r] = "ret1"})
           nxt == bf_i + Chunk(bf_concurrency)
       IN /\ \A r \in batch : bf_row[r] \in {"ret0", "ret1", "exc"}
          /\ bf_updated' = upd
          /\ bf_exc_lines' = bf_exc_lines + Cardinality({r \in batch : bf_row[r] = "exc"})
          /\ bf_i' = nxt
          /\ IF nxt < bf_nrows
             THEN /\ bf_row' = [r \in Rows |->
                       IF r \in Batch(nxt, bf_nrows, bf_concurrency)
                       THEN "waiting" ELSE bf_row[r]]
                  /\ UNCHANGED <<bf_pc, bf_summary>>
             ELSE /\ bf_pc' = "done"
                  /\ bf_summary' = <<upd, bf_nrows>>
                  /\ UNCHANGED bf_row
          /\ bf_pool' = IF nxt < bf_nrows THEN bf_pool ELSE "closed"
    /\ UNCHANGED <<bf_concurrency, bf_dry_run, bf_nrows, bf_auto, bf_sem, bf_manual,
                   bf_disp, bf_max_pool, notBf>>

\* The connections of the pool that are in use: process_row is inside
\* "async with pool.acquire() as conn" (lines 67-68).
InUse == Cardinality({r \in Rows : bf_row[r] = "conn"})

\* pool.acquire() gives process_row a connection when fewer than max_size are
\* in use; till then the task waits, inside sem.
PoolAcquire(r) ==
    /\ bf_row[r] = "db"
    /\ InUse < bf_max_pool
    /\ bf_row' = [bf_row EXCEPT ![r] = "conn"]
    /\ UNCHANGED <<bf_pc, bf_concurrency, bf_dry_run, bf_nrows, bf_i, bf_auto, bf_sem,
                   bf_updated, bf_manual, bf_exc_lines, bf_summary, bf_disp, bf_max_pool,
                   bf_pool, notBf>>

\* conn.execute(UPDATE ...) ends (line 68): the connection goes back to the
\* pool, process_row returns 1 or the exception leaves it, and worker
\* releases sem.
ConnReturnKeepsSem(r, ok) ==
    /\ bf_row[r] = "conn"
    /\ IF ok
       THEN /\ bf_manual' = [bf_manual EXCEPT ![r] = 1 - bf_auto[r]]
            /\ bf_row' = [bf_row EXCEPT ![r] = "ret1"]
       ELSE /\ bf_row' = [bf_row EXCEPT ![r] = "exc"]
            /\ UNCHANGED bf_manual
    /\ UNCHANGED <<bf_pc, bf_concurrency, bf_dry_run, bf_nrows, bf_i, bf_auto, bf_sem,
                   bf_updated, bf_exc_lines, bf_summary, bf_disp, bf_max_pool, bf_pool,
                   notBf>>
ConnReturn(r, ok) ==
    /\ bf_row[r] = "conn"
    /\ bf_sem' = bf_sem + 1
    /\ IF ok
       THEN /\ bf_manual' = [bf_manual EXCEPT ![r] = 1 - bf_auto[r]]
            /\ bf_row' = [bf_row EXCEPT ![r] = "ret1"]
       ELSE /\ bf_row' = [bf_row EXCEPT ![r] = "exc"]
            /\ UNCHANGED bf_manual
    /\ UNCHANGED <<bf_pc, bf_concurrency, bf_dry_run, bf_nrows, bf_i, bf_auto,
                   bf_updated, bf_exc_lines, bf_summary, bf_disp, bf_max_pool, bf_pool,
                   notBf>>

InitBfVars ==
    /\ bf_pc = "start"
    /\ bf_concurrency = 1
    /\ bf_dry_run = FALSE
    /\ bf_nrows = 0
    /\ bf_i = 0
    /\ bf_row = [r \in Rows |-> "none"]
    /\ bf_auto = [r \in Rows |-> NULL]
    /\ bf_sem = 0
    /\ bf_updated = 0
    /\ bf_manual = [r \in Rows |-> NULL]
    /\ bf_exc_lines = 0
    /\ bf_summary = <<>>
    /\ bf_disp = [r \in Rows |-> 0]
    /\ bf_max_pool = NULL
    /\ bf_pool = "none"

\* -------------------------------------------------------------- ingest run
\* bat_api_scraper.py: parse_listings 109-119, main 122-169.

NYears == 2          \* years of the run (the source's loop covers 1950..1979)
MaxPages == 2        \* pages_total is at most this
FIRST_YEAR == 1950
EndYear == FIRST_YEAR + NYears

\* data.get("items", []): the ids of the listings of a page, in order.
Listings == {<<>>, <<"101">>, <<"102">>, <<"101", "102">>}
Slots == 1..2

\* How a parse_json_listing task ends: a record with the transmission known,
\* a record with manual None, None (skipped), or an exception.
ItemEnds == {"record", "record_nomanual", "skipped", "raised"}

\* The year the pattern of line 50 finds in the title of listing k, None when
\* it does not match: the title of "101" names a year, the title of "102"
\* names none.
TitleYear(k) == IF k = "101" THEN FIRST_YEAR ELSE NULL

\* What the awaited steps of parse_json_listing give for an item: what
\* split_make_model returns, and whether it fell back to ai_extract_make_model
\* (a known make gives make and model without it); whether
\* ai_identify_transmission recognized a label; whether a step raises.  The
\* transmission is asked for only after make and model are there.
MakeModelResults ==
    {[fb |-> FALSE, make |-> 7, model |-> 7]}
    \cup {[fb |-> TRUE, make |-> a, model |-> b] : a, b \in {NULL, 7}}
ItemInputs ==
    {inp \in [raises : BOOLEAN, mm : MakeModelResults, tr : BOOLEAN] :
        /\ inp.raises => (~inp.mm.fb /\ ~inp.tr)
        /\ (inp.mm.make = NULL \/ inp.mm.model = NULL) => ~inp.tr}

\* The dict of lines 90-105.
ItemRecord(k, year, make, model, manual) ==
    [MkRecord(k, 7, {}) EXCEPT !.year = year, !.make = make, !.model = model,
                               !.manual = manual]

\* parse_json_listing(item, session, filter_year) on listing k: {} for None,
\* else {the record} (lines 49-58, 81-105).
ParseJsonListingKeepsAll(k, inp, filter_year) ==
    LET title_year == TitleYear(k)
        year == IF title_year # NULL THEN title_year ELSE filter_year IN
    {ItemRecord(k, year, inp.mm.make, inp.mm.model, IF inp.tr THEN 7 ELSE NULL)}
ParseJsonListing(k, inp, filter_year) ==
    LET title_year == TitleYear(k)
        year == IF title_year # NULL THEN title_year ELSE filter_year IN
    IF year = NULL THEN {}
    ELSE IF inp.mm.make = NULL \/ inp.mm.model = NULL THEN {}
    ELSE {ItemRecord(k, year, inp.mm.make, inp.mm.model, IF inp.tr THEN 7 ELSE NULL)}

\* The tasks parse_listings gathers for a page.
ItemTasks(listings) ==
    [i \in Slots |-> IF i <= Len(listings) THEN "pending" ELSE "none"]

\* The results loop of parse_listings 112-119: the records, in listing order.
RECURSIVE ParsedRecords(_, _, _)
ParsedRecords(listings, result, i) ==
    IF i > Len(listings) THEN <<>>
    ELSE (IF result[i] # {} THEN <<CHOOSE r \in result[i] : TRUE>> ELSE <<>>)
         \o ParsedRecords(listings, result, i + 1)
\* ... and the ids of the results it drops (exceptions and None).
DroppedIds(listings, result) ==
    {listings[i] : i \in {j \in 1..Len(listings) : result[j] = {}}}

\* year += 1 and the loop test; all_records = [] for the next year.
NextYearPc(year) == IF year + 1 < EndYear THEN "year_start" ELSE "done"

\* fetch_json_page answers: page 1 for "year_start", the next page for
\* "next_page".  An empty page after the first ends the loop.
PageFetched(total, listings) ==
    /\ in_pc \in {"year_start", "next_page"}
    /\ in_fetched' = TRUE
    /\ LET first == in_pc = "year_start"
           page == IF first THEN 1 ELSE in_page + 1
       IN IF listings = <<>> /\ page > 1
          THEN /\ ai_fallback_count' = 0
               /\ UNCHANGED <<in_listings, in_item, in_result, in_next>>
               /\ IF all_records # <<>>
                  THEN /\ in_pc' = "saving"
                       /\ in_page' = page
                       /\ UNCHANGED <<in_year, in_pages_total, all_records, in_dropped>>
                  ELSE /\ in_year' = in_year + 1
                       /\ in_pc' = NextYearPc(in_year)
                       /\ in_page' = 0
                       /\ in_pages_total' = 0
                       /\ in_dropped' = {}
                       /\ UNCHANGED all_records
          ELSE /\ in_page' = page
               /\ in_pages_total' = IF first THEN total ELSE in_pages_total
               /\ in_listings' = listings
               /\ in_item' = ItemTasks(listings)
               /\ in_pc' = "parsing"
               /\ UNCHANGED <<in_year, in_next, in_result, in_dropped, all_records,
                              ai_fallback_count>>
    /\ UNCHANGED <<store, in_enriched, notIn>>

\* resp.raise_for_status() raises in fetch_json_page: nothing in main catches
\* it, the run ends and all_records goes with it.
PageFetchRaises ==
    /\ in_pc \in {"year_start", "next_page"}
    /\ in_fetched' = TRUE
    /\ in_pc' = "fetch_raised"
    /\ all_records' = <<>>
    /\ UNCHANGED <<in_year, in_page, in_pages_total, in_listings, in_item, in_result,
                   in_dropped, in_next, in_enriched, store, ai_fallback_count, notIn>>

\* The parse_json_listing task of item i ends, having found inp.  Without a
\* key the transmission stays unknown and the fallback gives (None, None).
ItemFinish(i, inp) ==
    /\ in_pc = "parsing"
    /\ in_item[i] = "pending"
    /\ ~gemini_api_key => (~inp.tr /\ (inp.mm.fb => inp.mm.make = NULL /\ inp.mm.model = NULL))
    /\ LET res == IF inp.raises THEN {}
                  ELSE ParseJsonListing(in_listings[i], inp, in_year)
       IN /\ in_result' = [in_result EXCEPT ![i] = res]
          /\ in_item' = [in_item EXCEPT ![i] =
                IF inp.raises THEN "raised"
                ELSE IF res = {} THEN "skipped"
                ELSE IF inp.tr THEN "record" ELSE "record_nomanual"]
          /\ in_enriched' = IF res # {} THEN in_enriched \cup {in_listings[i]}
                            ELSE in_enriched
    /\ ai_fallback_count' = IF inp.mm.fb THEN ai_fallback_count + 1 ELSE ai_fallback_count
    /\ UNCHANGED <<in_pc, in_year, in_page, in_pages_total, in_listings, in_dropped,
                   all_records, in_next, in_fetched, store, notIn>>

\* gather returns in parse_listings; main extends all_records and goes to the
\* next page, or leaves the loop: the counter is read and reset, and
\* save_to_db(all_records) is called when there are records (lines 154-167).
PageParsed ==
    /\ in_pc = "parsing"
    /\ \A i \in Slots : in_item[i] # "pending"
    /\ in_listings' = <<>>
    /\ in_item' = [i \in Slots |-> "none"]
    /\ in_result' = [i \in Slots |-> {}]
    /\ LET recs == all_records \o ParsedRecords(in_listings, in_result, 1)
           drop == in_dropped \cup DroppedIds(in_listings, in_result)
       IN IF in_page < in_pages_total
          THEN /\ in_pc' = "next_page"
               /\ all_records' = recs
               /\ in_dropped' = drop
               /\ UNCHANGED <<in_year, in_page, in_pages_total, in_next, ai_fallback_count>>
          ELSE /\ ai_fallback_count' = 0
               /\ UNCHANGED in_next
               /\ IF recs # <<>>
                  THEN /\ in_pc' = "saving"
                       /\ all_records' = recs
                       /\ in_dropped' = drop
                       /\ UNCHANGED <<in_year, in_page, in_pages_total>>
                  ELSE /\ in_year' = in_year + 1
                       /\ in_pc' = NextYearPc(in_year)
                       /\ in_page' = 0
                       /\ in_pages_total' = 0
                       /\ in_dropped' = {}
                       /\ all_records' = <<>>
    /\ UNCHANGED <<in_fetched, in_enriched, store, notIn>>

\* save_to_db: the upsert of the next record of all_records; after the last,
\* year += 1.
IngestSaveRecord ==
    /\ in_pc = "saving"
    /\ store' = Upsert(store, all_records[in_next])
    /\ IF in_next = Len(all_records)
       THEN /\ in_year' = in_year + 1
            /\ in_pc' = NextYearPc(in_year)
            /\ in_next' = 1
            /\ in_page' = 0
            /\ in_pages_total' = 0
            /\ in_dropped' = {}
            /\ all_records' = <<>>
       ELSE /\ in_next' = in_next + 1
            /\ UNCHANGED <<in_pc, in_year, in_page, in_pages_total, in_dropped, all_records>>
    /\ UNCHANGED <<in_listings, in_item, in_result, in_fetched, in_enriched,
                   ai_fallback_count, notIn>>

\* The upsert of the next record raises in save_to_db: finally closes the
\* connection and the exception leaves main; the records after it are not
\* upserted.
IngestSaveRaises ==
    /\ in_pc = "saving"
    /\ in_pc' = "save_raised"
    /\ UNCHANGED <<in_year, in_page, in_pages_total, in_listings, in_item, in_result,
                   in_dropped, all_records, in_next, in_fetched, in_enriched, store,
                   ai_fallback_count, notIn>>

\* ------------------------------------------------------- make/model split
\* A title is the sequence of its words.  The words the model uses, and the
\* number of characters of those that occur in a make.
CharLen(w) ==
    CASE w = "BMW" -> 3
      [] w = "Motorrad" -> 8
      [] w = "Land" -> 4
      [] w = "Rover" -> 5
      [] w = "Mercedes-AMG" -> 12
      [] w = "Mercedes-Benz" -> 13
      [] OTHER -> 0

\* Some of KNOWN_MAKES, in the order of the list of lines 49-166.
KNOWN_MAKES_LISTED ==
    << <<"BMW", "Motorrad">>, <<"Land", "Rover">>, <<"Mercedes-AMG">>, <<"BMW">>,
       <<"Rover">> >>

\* len(make): the characters of the words and the spaces between them.
RECURSIVE MakeLen(_)
MakeLen(make) ==
    IF make = <<>> THEN 0
    ELSE CharLen(Head(make)) + (IF Len(make) > 1 THEN 1 ELSE 0) + MakeLen(Tail(make))

\* KNOWN_MAKES.sort(key=len, reverse=True): a stable sort, longest first.
RECURSIVE InsertByLen(_, _)
InsertByLen(sorted, make) ==
    IF sorted = <<>> THEN <<make>>
    ELSE IF MakeLen(Head(sorted)) >= MakeLen(make)
         THEN <<Head(sorted)>> \o InsertByLen(Tail(sorted), make)
         ELSE <<make>> \o sorted
RECURSIVE SortByLen(_, _)
SortByLen(list, n) ==
    IF n = 0 THEN <<>> ELSE InsertByLen(SortByLen(list, n - 1), list[n])
KNOWN_MAKES == SortByLen(KNOWN_MAKES_LISTED, Len(KNOWN_MAKES_LISTED))

\* MAKE_NORMALIZATION.get(make, make).
MAKE_NORMALIZATION(make) ==
    IF make = <<"Mercedes-AMG">> THEN <<"Mercedes-Benz">> ELSE make

\* The words the pattern of line 325 removes, matched without regard to case.
Lower(w) ==
    CASE w = "One-Owner" -> "one-owner"
      [] w = "Modified" -> "modified"
      [] w = "JDM" -> "jdm"
      [] OTHER -> w
QualifierWords ==
    {"one-owner", "original-owner", "modified", "supercharged", "turbocharged",
     "custom", "jdm"}
\* Words matching [\d.,kK-]+-Mile, and words matching (?:19|20)\d{2}.
MileageWords == {"15k-Mile"}
YearWords == {"2021", "1965"}

\* re.sub of line 324: one leading qualifier word, when more text follows.
StripQualifier(title) ==
    IF Len(title) >= 2 /\ Lower(title[1]) \in QualifierWords THEN Tail(title) ELSE title

\* re.sub of line 333: an optional mileage word and a year word, when more
\* text follows; a mileage word without a year after it stays.
StripMileageYear(title) ==
    IF Len(title) >= 3 /\ title[1] \in MileageWords /\ title[2] \in YearWords
    THEN SubSeq(title, 3, Len(title))
    ELSE IF Len(title) >= 2 /\ title[1] \in YearWords THEN Tail(title)
    ELSE title

\* stripped_title.startswith(make + " ").
StartsWithMake(stripped, make) ==
    Len(stripped) > Len(make) /\ SubSeq(stripped, 1, Len(make)) = make

\* The loop of lines 336-340 over a list of makes: {} when no make matches,
\* else {<<normalized make, model>>} for the first that does.
RECURSIVE LastMatch(_, _)
LastMatch(stripped, makes) ==
    IF makes = <<>> THEN {}
    ELSE IF LastMatch(stripped, Tail(makes)) # {} THEN LastMatch(stripped, Tail(makes))
    ELSE IF StartsWithMake(stripped, Head(makes))
         THEN {<<MAKE_NORMALIZATION(Head(makes)),
                 SubSeq(stripped, Len(Head(makes)) + 1, Len(stripped))>>}
         ELSE {}
RECURSIVE FirstMatch(_, _)
FirstMatch(stripped, makes) ==
    IF makes = <<>> THEN {}
    ELSE IF StartsWithMake(stripped, Head(makes))
         THEN {<<MAKE_NORMALIZATION(Head(makes)),
                 SubSeq(stripped, Len(Head(makes)) + 1, Len(stripped))>>}
         ELSE FirstMatch(stripped, Tail(makes))

\* The part of split_make_model before the fallback (lines 324-340).
KnownMakeSplit(raw_title) ==
    FirstMatch(StripMileageYear(StripQualifier(raw_title)), KNOWN_MAKES)

\* The titles split_make_model is called with: qualifiers, a mileage, a year
\* and the rest, each present or not.
TitleQualifiers == {<<>>, <<"One-Owner">>, <<"jdm">>, <<"Modified", "One-Owner">>}
TitleMileages == {<<>>, <<"15k-Mile">>, <<"15k-Kilometer">>}
TitleYears == {<<>>, <<"2021">>, <<"1899">>}
TitleRests ==
    {<<"Land", "Rover", "Range", "Rover", "Evoque">>, <<"Rover", "P5B">>,
     <<"BMW", "Motorrad", "R90">>, <<"BMW", "2002">>, <<"Mercedes-AMG", "GT">>,
     <<"Tatra", "603">>, <<"BMW">>, <<"Land", "Cruiser">>}
RawTitles ==
    {q \o m \o y \o r : q \in TitleQualifiers, m \in TitleMileages, y \in TitleYears,
                        r \in TitleRests}

\* What ai_extract_make_model may return.
NoPair == << <<"None">>, <<"None">> >>
AiPairs == {NoPair, << <<"Tatra">>, <<"603">> >>}

\* split_make_model(raw_title) up to its return or to the await of the
\* fallback; ai_extract_make_model counts the call in its first statement.
SplitCall(raw_title) ==
    /\ sm_pc = "idle"
    /\ sm_inv < MaxInv
    /\ sm_inv' = sm_inv + 1
    /\ sm_title' = raw_title
    /\ sm_count0' = ai_fallback_count
    /\ sm_ext' = 0
    /\ IF KnownMakeSplit(raw_title) # {}
       THEN /\ sm_ret' = KnownMakeSplit(raw_title)
            /\ sm_pc' = "returned"
            /\ UNCHANGED ai_fallback_count
       ELSE /\ sm_ret' = {}
            /\ sm_pc' = "ai"
            /\ ai_fallback_count' = ai_fallback_count + 1
    /\ UNCHANGED notSm

\* ai_extract_make_model returns result, having called generate_content_async
\* ext times (not at all without a key or on a cache hit); a tuple is truthy,
\* so line 344 returns it as it is.
SplitFallbackReturn(result, ext) ==
    /\ sm_pc = "ai"
    /\ ~gemini_api_key => (ext = 0 /\ result = NoPair)
    /\ sm_ret' = {result}
    /\ sm_ext' = ext
    /\ sm_pc' = "returned"
    /\ UNCHANGED <<sm_title, sm_count0, sm_inv, ai_fallback_count, notSm>>

\* The caller goes on; the locals of the call are gone.
SplitCallerContinue ==
    /\ sm_pc = "returned"
    /\ sm_pc' = "idle"
    /\ sm_title' = <<>>
    /\ sm_ret' = {}
    /\ sm_ext' = 0
    /\ sm_count0' = 0
    /\ UNCHANGED <<sm_inv, ai_fallback_count, notSm>>

InitSmVars ==
    /\ sm_pc = "idle"
    /\ sm_title = <<>>
    /\ sm_ret = {}
    /\ sm_ext = 0
    /\ sm_count0 = 0
    /\ sm_inv = 0

InitTlVars ==
    /\ tl_pc = "fetch"
    /\ tl_year = FIRST_YEAR
    /\ tl_page = 0
    /\ tl_pages_total = 0
    /\ tl_task = [i \in Slots |-> "none"]
    /\ tl_records = FALSE
    /\ total_ai_fallbacks = 0
    /\ tl_calls = 0

InitInVars ==
    /\ in_pc = "year_start"
    /\ in_year = FIRST_YEAR
    /\ in_page = 0
    /\ in_pages_total = 0
    /\ in_listings = <<>>
    /\ in_item = [i \in Slots |-> "none"]
    /\ in_result = [i \in Slots |-> {}]
    /\ in_dropped = {}
    /\ all_records = <<>>
    /\ in_next = 1
    /\ in_fetched = FALSE
    /\ in_enriched = {}

InitThrottle ==
    /\ InitThrVars
    /\ rpm \in RPMValues
    /\ pc = [t \in Tasks |-> "throttle"]
    /\ InitDbVars
    /\ InitDetVars
    /\ gemini_api_key = TRUE
    /\ InitClsVars
    /\ InitBfVars
    /\ InitInVars
    /\ InitSmVars
    /\ InitPrVars
    /\ InitPlVars
    /\ InitTlVars

NextThrottle ==
    \/ \E t \in Tasks : ThrottleEnter(t)
    \/ \E t \in Tasks : ThrottleWake(t)
    \/ \E t \in Tasks : CallerReturn(t)
    \/ Tick

SpecThrottle == InitThrottle /\ [][NextThrottle]_vars

\* The limiter with sequential callers only.
InitSequential == InitThrottle

NextSequential ==
    \/ \E t \in Tasks : SequentialEnter(t)
    \/ \E t \in Tasks : ThrottleWake(t)
    \/ \E t \in Tasks : CallerReturn(t)
    \/ Tick

SpecSequential == InitSequential /\ [][NextSequential]_vars

InitDb ==
    /\ InitThrVars
    /\ rpm = 30
    /\ pc = [t \in Tasks |-> "done"]
    /\ InitDbVars
    /\ InitDetVars
    /\ gemini_api_key = TRUE
    /\ InitClsVars
    /\ InitBfVars
    /\ InitInVars
    /\ InitSmVars
    /\ InitPrVars
    /\ InitPlVars
    /\ InitTlVars

NextDb ==
    \/ SaveConnect
    \/ \E r \in Records : SaveExecute(r)
    \/ SaveExecuteRaises
    \/ SaveClose

SpecDb == InitDb /\ [][NextDb]_vars

InitDetail ==
    /\ InitThrVars
    /\ rpm = 30
    /\ pc = [t \in Tasks |-> "done"]
    /\ InitDbVars
    /\ InitDetVars
    /\ gemini_api_key = TRUE
    /\ InitClsVars
    /\ InitBfVars
    /\ InitInVars
    /\ InitSmVars
    /\ InitPrVars
    /\ InitPlVars
    /\ InitTlVars

NextDetail ==
    \/ DetailStart
    \/ \E o \in Outcomes, j \in Jitters : DetailAttempt(o, j)
    \/ DetailResume

SpecDetail == InitDetail /\ [][NextDetail]_vars

InitClassifier ==
    /\ InitThrVars
    /\ rpm = 60
    /\ pc = [t \in Tasks |-> IF t \in Clients THEN "idle" ELSE "done"]
    /\ InitDbVars
    /\ InitDetVars
    /\ gemini_api_key \in BOOLEAN
    /\ InitClsVars
    /\ InitBfVars
    /\ InitInVars
    /\ InitSmVars
    /\ InitPrVars
    /\ InitPlVars
    /\ InitTlVars

NextClassifier ==
    \/ \E t \in Clients, x \in Inputs : MmStart(t, x)
    \/ \E t \in Clients, r \in MmReplies : MmCallReturn(t, r)
    \/ \E t \in Clients, x \in Inputs : TrStart(t, x)
    \/ \E t \in Clients, r \in TrReplies : TrCallReturn(t, r)
    \/ \E t \in Clients : TrBackoffEnd(t)
    \/ \E t \in Clients : CallerContinue(t)
    \/ ResetCount
    \/ \E t \in Clients : ThrottleWake(t)
    \/ ClsTick

SpecClassifier == InitClassifier /\ [][NextClassifier]_vars

\* The tasks of one parse_listings batch (asyncio.gather over the items of a
\* page), whose listings have titles with no known make: each task that runs
\* calls ai_extract_make_model once, and gather keeps its result.
InitBatch ==
    /\ InitThrVars
    /\ rpm = 60
    /\ pc = [t \in Tasks |-> "idle"]
    /\ InitDbVars
    /\ InitDetVars
    /\ gemini_api_key = TRUE
    /\ InitClsVars
    /\ InitBfVars
    /\ InitInVars
    /\ InitSmVars
    /\ InitPrVars
    /\ InitPlVars
    /\ InitTlVars

NextBatch ==
    \/ \E t \in Tasks, x \in Inputs : MmStart(t, x)
    \/ \E t \in Tasks, r \in MmReplies : MmCallReturn(t, r)
    \/ \E t \in Tasks : ThrottleWake(t)
    \/ BatchTick

SpecBatch == InitBatch /\ [][NextBatch]_vars

InitBackfill ==
    /\ InitThrVars
    /\ rpm = 30
    /\ pc = [t \in Tasks |-> "done"]
    /\ InitDbVars
    /\ InitDetVars
    /\ gemini_api_key \in BOOLEAN
    /\ InitClsVars
    /\ bf_pc = "start"
    /\ bf_concurrency \in Concurrencies
    /\ bf_dry_run \in BOOLEAN
    /\ bf_nrows = 0
    /\ bf_i = 0
    /\ bf_row = [r \in Rows |-> "none"]
    /\ bf_auto = [r \in Rows |-> NULL]
    /\ bf_sem = 0
    /\ bf_updated = 0
    /\ bf_manual = [r \in Rows |-> NULL]
    /\ bf_exc_lines = 0
    /\ bf_summary = <<>>
    /\ bf_disp = [r \in Rows |-> 0]
    /\ bf_max_pool = NULL
    /\ bf_pool = "none"
    /\ InitInVars
    /\ InitSmVars
    /\ InitPrVars
    /\ InitPlVars
    /\ InitTlVars

NextBackfill ==
    \/ \E n \in 0..MaxRows : BackfillFetch(n)
    \/ BackfillFetchRaises
    \/ \E r \in Rows : WorkerAcquire(r)
    \/ \E r \in Rows, out \in {TrTrue, TrFalse, TrNone, TrRaised} : RowAiReturn(r, out)
    \/ \E r \in Rows, ok \in BOOLEAN : RowDbReturn(r, ok)
    \/ GatherDone

SpecBackfill == InitBackfill /\ [][NextBackfill]_vars

\* Backfill runs over at most one candidate row, for every concurrency the
\* pool is sized for.
InitPool ==
    /\ InitThrVars
    /\ rpm = 30
    /\ pc = [t \in Tasks |-> "done"]
    /\ InitDbVars
    /\ InitDetVars
    /\ gemini_api_key = TRUE
    /\ InitClsVars
    /\ bf_pc = "start"
    /\ bf_concurrency \in 0..MaxPoolConc
    /\ bf_dry_run \in BOOLEAN
    /\ bf_nrows = 0
    /\ bf_i = 0
    /\ bf_row = [r \in Rows |-> "none"]
    /\ bf_auto = [r \in Rows |-> NULL]
    /\ bf_sem = 0
    /\ bf_updated = 0
    /\ bf_manual = [r \in Rows |-> NULL]
    /\ bf_exc_lines = 0
    /\ bf_summary = <<>>
    /\ bf_disp = [r \in Rows |-> 0]
    /\ bf_max_pool = NULL
    /\ bf_pool = "none"
    /\ InitInVars
    /\ InitSmVars
    /\ InitPrVars
    /\ InitPlVars
    /\ InitTlVars

NextPool ==
    \/ \E n \in 0..1 : BackfillFetch(n)
    \/ BackfillFetchRaises
    \/ WorkerAcquire(1)
    \/ \E out \in {TrTrue, TrFalse, TrNone} : RowAiReturn(1, out)
    \/ \E ok \in BOOLEAN : RowDbReturn(1, ok)
    \/ GatherDone

SpecPool == InitPool /\ [][NextPool]_vars

InitIngest ==
    /\ InitThrVars
    /\ rpm = 30
    /\ pc = [t \in Tasks |-> "done"]
    /\ InitDbVars
    /\ InitDetVars
    /\ gemini_api_key \in BOOLEAN
    /\ InitClsVars
    /\ InitBfVars
    /\ InitInVars
    /\ InitSmVars
    /\ InitPrVars
    /\ InitPlVars
    /\ InitTlVars

NextIngest ==
    \/ \E total \in 1..MaxPages, l \in Listings : PageFetched(total, l)
    \/ PageFetchRaises
    \/ \E i \in Slots, inp \in ItemInputs : ItemFinish(i, inp)
    \/ PageParsed
    \/ IngestSaveRecord
    \/ IngestSaveRaises

SpecIngest == InitIngest /\ [][NextIngest]_vars

InitSplit ==
    /\ InitThrVars
    /\ rpm = 30
    /\ pc = [t \in Tasks |-> "done"]
    /\ InitDbVars
    /\ InitDetVars
    /\ gemini_api_key \in BOOLEAN
    /\ InitClsVars
    /\ InitBfVars
    /\ InitInVars
    /\ InitSmVars
    /\ InitPrVars
    /\ InitPlVars
    /\ InitTlVars

NextSplit ==
    \/ \E raw_title \in RawTitles : SplitCall(raw_title)
    \/ \E result \in AiPairs, ext \in 0..1 : SplitFallbackReturn(result, ext)
    \/ SplitCallerContinue

SpecSplit == InitSplit /\ [][NextSplit]_vars

\* ------------------------------------------- parse_json_listing, steps 4, 7
MaxOdoWords == 2     \* words of the longest title and excerpt

\* What the pattern of extract_mileage (line 548) and parse_mileage_string
\* make of a word: a number with k, or a number followed by mile(s); in
\* "2,900-Mile" the number is followed by "-", not by mile.
OdoWords == {"0 miles", "200 miles", "15k-Mile", "2,900-Mile", "Coupe"}
MilesOf(w) ==
    CASE w = "0 miles" -> 0
      [] w = "200 miles" -> 200
      [] w = "15k-Mile" -> 15000
      [] OTHER -> NULL

\* extract_mileage(text), lines 534-560: the highest reading, None without one.
ExtractMileage(text) ==
    LET mile_values == {MilesOf(text[i]) : i \in 1..Len(text)} \ {NULL} IN
    IF mile_values = {} THEN NULL
    ELSE CHOOSE v \in mile_values : \A w \in mile_values : w <= v

\* python's a or b on int | None: a unless it is None or 0.
FirstNonNull(a, b) == IF a # NULL THEN a ELSE b
Or(a, b) == IF a # NULL /\ a # 0 THEN a ELSE b

OdoTexts == UNION {[1..n -> OdoWords] : n \in 0..MaxOdoWords}
ListingItems == [title : OdoTexts, excerpt : OdoTexts, url : BOOLEAN]
NoItem == [title |-> <<>>, excerpt |-> <<>>, url |-> FALSE]
DetailMileages == {NULL, 0, 31000}

\* Lines 60-64 up to the await of the detail fetcher.
ListingMileage(item) ==
    /\ pl_pc = "idle"
    /\ pl_item' = item
    /\ LET mileage == Or(ExtractMileage(item.title), ExtractMileage(item.excerpt)) IN
       /\ pl_mileage' = mileage
       /\ IF mileage = NULL /\ item.url
          THEN /\ pl_pc' = "detail"
               /\ pl_fetches' = pl_fetches + 1
          ELSE /\ pl_pc' = "classify"
               /\ UNCHANGED pl_fetches
    /\ UNCHANGED <<pl_detail, pl_label, pl_auto, pl_manual, notPl>>

\* extract_mileage_from_detail_page returns v; lines 66-84 up to the await of
\* the classifier.
ListingDetailReturn(v) ==
    /\ pl_pc = "detail"
    /\ pl_detail' = v
    /\ pl_mileage' = v
    /\ pl_pc' = "classify"
    /\ UNCHANGED <<pl_item, pl_fetches, pl_label, pl_auto, pl_manual, notPl>>

\* manual = not auto_flag (line 86; process_row line 60).
SameAsAuto(out) == IF out = TrTrue THEN 1 ELSE 0
NotAuto(out) == IF out = TrTrue THEN 0 ELSE 1

\* Lines 82-105: ai_identify_transmission, having recognized label, returns
\* out or raises, and the record is returned.
ListingClassified(label, out) ==
    /\ pl_pc = "classify"
    /\ pl_label' = label
    /\ pl_auto' = out
    /\ pl_manual' = IF out \in {TrRaised, TrNone} THEN NULL ELSE NotAuto(out)
    /\ pl_pc' = "returned"
    /\ pl_item' = NoItem
    /\ UNCHANGED <<pl_fetches, pl_detail, pl_mileage, notPl>>

\* The next listing.
ListingNext ==
    /\ pl_pc = "returned"
    /\ pl_pc' = "idle"
    /\ pl_fetches' = 0
    /\ pl_detail' = NULL
    /\ pl_mileage' = NULL
    /\ pl_label' = NoLabel
    /\ pl_auto' = <<>>
    /\ pl_manual' = NULL
    /\ UNCHANGED <<pl_item, notPl>>

\* What ai_identify_transmission gives its caller: True, False or None after
\* the last attempt's reply (lines 480-499), with the label read from that
\* reply, or an exception.
ClassifierRuns ==
    {[label |-> IF reply.raises THEN NoLabel ELSE ParseTransmission(reply.text),
      out |-> TrAfterAttempt(reply, TR_ATTEMPTS - 1)] : reply \in TrReplies}
    \cup {[label |-> "raised", out |-> TrRaised]}

\* ------------------------------------------- main and the fallback counter
\* total_ai_fallbacks += get_ai_fallback_count() (line 159).
LastCount(total, count) == count
AddCount(total, count) == total + count

\* The end of the page loop (lines 157-167): the counter is added to the total
\* and reset; with records save_to_db is awaited, else year += 1.
YearEnd(records) ==
    /\ total_ai_fallbacks' = AddCount(total_ai_fallbacks, ai_fallback_count)
    /\ ai_fallback_count' = 0
    /\ tl_task' = [i \in Slots |-> "none"]
    /\ IF records
       THEN /\ tl_pc' = "save"
            /\ tl_records' = TRUE
            /\ UNCHANGED <<tl_year, tl_page, tl_pages_total>>
       ELSE /\ tl_pc' = IF tl_year + 1 < EndYear THEN "fetch" ELSE "done"
            /\ tl_year' = tl_year + 1
            /\ tl_page' = 0
            /\ tl_pages_total' = 0
            /\ tl_records' = FALSE

\* fetch_json_page answers with n items (lines 137-152): an empty page after
\* the first ends the page loop, else parse_listings creates a task per item
\* and awaits gather.
TotalsFetched(total, n) ==
    /\ tl_pc = "fetch"
    /\ IF n = 0 /\ tl_page >= 1
       THEN YearEnd(tl_records)
       ELSE /\ tl_page' = tl_page + 1
            /\ tl_pages_total' = IF tl_page = 0 THEN total ELSE tl_pages_total
            /\ tl_task' = [i \in Slots |-> IF i <= n THEN "created" ELSE "none"]
            /\ tl_pc' = "gather"
            /\ UNCHANGED <<tl_year, tl_records, total_ai_fallbacks, ai_fallback_count>>
    /\ UNCHANGED <<tl_calls, notTl>>

\* fetch_json_page raises and the exception leaves main.
TotalsFetchRaises ==
    /\ tl_pc = "fetch"
    /\ tl_pc' = "raised"
    /\ UNCHANGED <<tl_year, tl_page, tl_pages_total, tl_task, tl_records,
                   total_ai_fallbacks, tl_calls, ai_fallback_count, notTl>>

\* The task of item i runs to its first suspension, the tasks before it having
\* begun: with no known make in the title (fb) it is inside
\* ai_extract_make_model, which counts the call in its first statement.
TaskStart(i, fb) ==
    /\ tl_pc = "gather"
    /\ tl_task[i] = "created"
    /\ \A j \in Slots : j < i => tl_task[j] # "created"
    /\ tl_task' = [tl_task EXCEPT ![i] = "running"]
    /\ ai_fallback_count' = IF fb THEN ai_fallback_count + 1 ELSE ai_fallback_count
    /\ tl_calls' = IF fb THEN tl_calls + 1 ELSE tl_calls
    /\ UNCHANGED <<tl_pc, tl_year, tl_page, tl_pages_total, tl_records,
                   total_ai_fallbacks, notTl>>

\* The task of item i ends, with a record or without (None or an exception).
TaskEnd(i, result) ==
    /\ tl_pc = "gather"
    /\ tl_task[i] = "running"
    /\ tl_task' = [tl_task EXCEPT ![i] = result]
    /\ UNCHANGED <<tl_pc, tl_year, tl_page, tl_pages_total, tl_records,
                   total_ai_fallbacks, tl_calls, ai_fallback_count, notTl>>

\* gather returns (line 111) when every task has ended; main extends
\* all_records and fetches the next page, or leaves the page loop.
TotalsGathered ==
    /\ tl_pc = "gather"
    /\ \A i \in Slots : tl_task[i] \notin {"created", "running"}
    /\ LET records == tl_records \/ \E i \in Slots : tl_task[i] = "record" IN
       IF tl_page < tl_pages_total
       THEN /\ tl_pc' = "fetch"
            /\ tl_records' = records
            /\ tl_task' = [i \in Slots |-> "none"]
            /\ UNCHANGED <<tl_year, tl_page, tl_pages_total, total_ai_fallbacks,
                           ai_fallback_count>>
       ELSE YearEnd(records)
    /\ UNCHANGED <<tl_calls, notTl>>

\* save_to_db returns and year += 1 (lines 163-167), or it raises.
TotalsSaved(ok) ==
    /\ tl_pc = "save"
    /\ IF ok
       THEN /\ tl_pc' = IF tl_year + 1 < EndYear THEN "fetch" ELSE "done"
            /\ tl_year' = tl_year + 1
            /\ tl_page' = 0
            /\ tl_pages_total' = 0
            /\ tl_records' = FALSE
       ELSE /\ tl_pc' = "raised"
            /\ UNCHANGED <<tl_year, tl_page, tl_pages_total, tl_records>>
    /\ UNCHANGED <<tl_task, total_ai_fallbacks, tl_calls, ai_fallback_count, notTl>>

InitTotals ==
    /\ InitThrVars
    /\ rpm = 30
    /\ pc = [t \in Tasks |-> "done"]
    /\ InitDbVars
    /\ InitDetVars
    /\ gemini_api_key \in BOOLEAN
    /\ InitClsVars
    /\ InitBfVars
    /\ InitInVars
    /\ InitSmVars
    /\ InitPrVars
    /\ InitPlVars
    /\ InitTlVars

NextTotals ==
    \/ \E total \in 1..MaxPages, n \in {0} \cup Slots : TotalsFetched(total, n)
    \/ TotalsFetchRaises
    \/ \E i \in Slots, fb \in BOOLEAN : TaskStart(i, fb)
    \/ \E i \in Slots, result \in {"record", "norecord"} : TaskEnd(i, result)
    \/ TotalsGathered
    \/ \E ok \in BOOLEAN : TotalsSaved(ok)

SpecTotals == InitTotals /\ [][NextTotals]_vars

\* A backfill with the pool's connections told apart, with the gate narrower
\* than the batch (concurrency 1) and with the pool narrower than the gate
\* (concurrency 8, max_pool 4).
LiveConcurrencies == {1, 8}

InitLive ==
    /\ InitThrVars
    /\ rpm = 30
    /\ pc = [t \in Tasks |-> "done"]
    /\ InitDbVars
    /\ InitDetVars
    /\ gemini_api_key = TRUE
    /\ InitClsVars
    /\ bf_pc = "start"
    /\ bf_concurrency \in LiveConcurrencies
    /\ bf_dry_run \in BOOLEAN
    /\ bf_nrows = 0
    /\ bf_i = 0
    /\ bf_row = [r \in Rows |-> "none"]
    /\ bf_auto = [r \in Rows |-> NULL]
    /\ bf_sem = 0
    /\ bf_updated = 0
    /\ bf_manual = [r \in Rows |-> NULL]
    /\ bf_exc_lines = 0
    /\ bf_summary = <<>>
    /\ bf_disp = [r \in Rows |-> 0]
    /\ bf_max_pool = NULL
    /\ bf_pool = "none"
    /\ InitInVars
    /\ InitSmVars
    /\ InitPrVars
    /\ InitPlVars
    /\ InitTlVars

NextLive ==
    \/ \E n \in 0..MaxRows : BackfillFetch(n)
    \/ BackfillFetchRaises
    \/ \E r \in Rows : WorkerAcquire(r)
    \/ \E r \in Rows, out \in {TrTrue, TrNone, TrRaised} : RowAiReturn(r, out)
    \/ \E r \in Rows : PoolAcquire(r)
    \/ \E r \in Rows : RowDbReturn(r, FALSE)
    \/ \E r \in Rows, ok \in BOOLEAN : ConnReturn(r, ok)
    \/ GatherDone

\* The event loop runs a task that can run, and every call returns or raises.
SpecLive == InitLive /\ [][NextLive]_vars /\ WF_vars(NextLive)

InitParser ==
    /\ InitThrVars
    /\ rpm = 30
    /\ pc = [t \in Tasks |-> "done"]
    /\ InitDbVars
    /\ InitDetVars
    /\ gemini_api_key = TRUE
    /\ InitClsVars
    /\ InitBfVars
    /\ InitInVars
    /\ InitSmVars
    /\ InitPrVars
    /\ InitPlVars
    /\ InitTlVars

NextParser ==
    \/ \E text \in ParserTexts : ParserCall(text)
    \/ ParserReturn
    \/ ParserNext

SpecParser == InitParser /\ [][NextParser]_vars

InitListing == InitParser

NextListing ==
    \/ \E item \in ListingItems : ListingMileage(item)
    \/ \E v \in DetailMileages : ListingDetailReturn(v)
    \/ \E run \in ClassifierRuns : ListingClassified(run.label, run.out)
    \/ ListingNext

SpecListing == InitListing /\ [][NextListing]_vars

\* One listing parsed by parse_json_listing and one row processed by
\* process_row.
InitPolarity ==
    /\ InitThrVars
    /\ rpm = 30
    /\ pc = [t \in Tasks |-> "done"]
    /\ InitDbVars
    /\ InitDetVars
    /\ gemini_api_key = TRUE
    /\ InitClsVars
    /\ bf_pc = "start"
    /\ bf_concurrency = 1
    /\ bf_dry_run \in BOOLEAN
    /\ bf_nrows = 0
    /\ bf_i = 0
    /\ bf_row = [r \in Rows |-> "none"]
    /\ bf_auto = [r \in Rows |-> NULL]
    /\ bf_sem = 0
    /\ bf_updated = 0
    /\ bf_manual = [r \in Rows |-> NULL]
    /\ bf_exc_lines = 0
    /\ bf_summary = <<>>
    /\ bf_disp = [r \in Rows |-> 0]
    /\ bf_max_pool = NULL
    /\ bf_pool = "none"
    /\ InitInVars
    /\ InitSmVars
    /\ InitPrVars
    /\ InitPlVars
    /\ InitTlVars

NextPolarity ==
    \/ \E url \in BOOLEAN : ListingMileage([NoItem EXCEPT !.url = url])
    \/ \E v \in DetailMileages : ListingDetailReturn(v)
    \/ \E run \in ClassifierRuns : ListingClassified(run.label, run.out)
    \/ ListingNext
    \/ \E n \in 0..1 : BackfillFetch(n)
    \/ BackfillFetchRaises
    \/ WorkerAcquire(1)
    \/ \E run \in ClassifierRuns : RowAiReturn(1, run.out)
    \/ \E ok \in BOOLEAN : RowDbReturn(1, ok)
    \/ GatherDone

SpecPolarity == InitPolarity /\ [][NextPolarity]_vars

\* C1: every two consecutive call-starts admitted by the limiter are at least
\* 60/R seconds apart, for any number of concurrent callers.
C1_RateBound ==
    (admit_prev # NULL) => (admit_last - admit_prev >= gemini_interval)

\* C19: the limiter admits in FIFO order: no task returns from
\* _throttle_gemini_call while a task that entered it earlier is still in it.
Admitted(t) == pc[t] \in {"throttle", "sleep"} /\ pc'[t] = "call"
C19_FifoAdmission ==
    [][\A t \in Tasks : Admitted(t) => (waiters = <<>> \/ Head(waiters) = t)]_vars

\* The value column c of key k holds in table st (NULL when k has no row).
Stored(st, k, c) == IF k \in DOMAIN st THEN st[k][c] ELSE NULL

\* C2: after an upsert, each of mileage, sold_price, sold_date, status and manual
\* holds the incoming value when that is non-null and the value stored before
\* when it is null; and no step makes a stored non-null value of these null.
C2_CoalesceStep ==
    \A r \in lastRec : \A c \in CoalesceCols :
        Stored(store, r.source_listing_id, c) =
            IF r[c] # NULL THEN r[c]
            ELSE IF prevRow = {} THEN NULL
            ELSE (CHOOSE o \in prevRow : TRUE)[c]
C2_NeverErased ==
    \A k \in DOMAIN store : \A c \in CoalesceCols :
        store[k][c] # NULL => (k \in DOMAIN store' /\ store'[k][c] # NULL)
C2_Coalesce == [](C2_CoalesceStep) /\ [][C2_NeverErased]_vars
\* An upsert with a null mileage has met a stored mileage, and one with a
\* non-null mileage has replaced another.
C2_Witness ==
    \E r \in lastRec : \E o \in prevRow :
        /\ r.mileage = NULL /\ o.mileage # NULL
        /\ r.status # NULL /\ o.status # NULL /\ r.status # o.status
        /\ store[r.source_listing_id].mileage = o.mileage

\* C3: the same record upserted twice in a row leaves its row as the first
\* application left it, whatever the table held before.
C3_Idempotent ==
    repeated => \A r \in lastRec : prevRow = {store[r.source_listing_id]}
\* A record with a null mileage was applied twice over a row holding a mileage.
C3_Witness ==
    /\ repeated
    /\ \E r \in lastRec :
         /\ r.mileage = NULL
         /\ store[r.source_listing_id].mileage # NULL
         /\ store[r.source_listing_id].title # NULL

\* C4: a call of the classifier client on an input a finished call has been
\* made on before returns the outcome of that earlier call and makes no
\* external service call.
C4_SecondCallSame ==
    \A t \in Clients :
        (pc[t] = "returned" /\ cl_prior[t] # {}) =>
            (cl_ret[t] = cl_prior[t] /\ cl_ext[t] = 0)

\* C6: when a row's task raises in a backfill batch, every other row's task
\* still runs to completion with its result persisted, and the run's summary
\* gives the number of failed rows and the number of successful rows.
FailedRows == {r \in Rows : bf_row[r] = "exc"}
C6_IsolatedAndReported ==
    (bf_pc = "done" /\ bf_summary # <<>> /\ FailedRows # {}) =>
        /\ \A r \in 1..bf_nrows :
             /\ bf_row[r] \in {"ret0", "ret1", "exc"}
             /\ (bf_row[r] = "ret1" /\ ~bf_dry_run) => bf_manual[r] # NULL
        /\ bf_summary[2] - bf_summary[1] = Cardinality(FailedRows)
        /\ bf_summary[1] = bf_nrows - Cardinality(FailedRows)

\* C7: when the ingest run has ended, normally or not, every listing that
\* parse_json_listing returned a record for is stored.
\* (A record whose own upsert raised is not asked for.)
IngestEnded == in_pc \in {"done", "fetch_raised", "save_raised"}
OwnUpsertRaised(k) ==
    in_pc = "save_raised" /\ all_records[in_next].source_listing_id = k
C7_NoProgressLost ==
    IngestEnded => \A k \in in_enriched : k \in DOMAIN store \/ OwnUpsertRaised(k)

\* C17: every record bat_api_scraper hands to save_to_db has a year, a make and
\* a model: parse_json_listing returns no record when one of them is missing
\* (also when called without filter_year), and parse_listings drops the None
\* results and the results that raised.
AllFound == [raises |-> FALSE, mm |-> [fb |-> FALSE, make |-> 7, model |-> 7], tr |-> TRUE]
HasYearMakeModel(r) == r.year # NULL /\ r.make # NULL /\ r.model # NULL
C17_YearMakeModel ==
    /\ \A n \in 1..Len(all_records) : HasYearMakeModel(all_records[n])
    /\ \A i \in Slots : \A r \in in_result[i] : HasYearMakeModel(r)
    /\ ParseJsonListing("102", AllFound, NULL) = {}
\* save_to_db is about to be called with the record of one listing of the
\* year, while the result of the other listing, whose make or model was
\* missing or whose task raised, has been dropped.
C17_Witness ==
    /\ in_pc = "saving"
    /\ in_next = 1
    /\ Len(all_records) = 1
    /\ in_dropped # {}
    /\ all_records[1].source_listing_id \notin in_dropped

\* C18: when the title, after removal of the leading qualifier and of the
\* mileage/year prefix, begins with a known make followed by a space,
\* split_make_model returns the longest such make, normalized, and the rest
\* of the text as model, with no classifier call and the fallback counter
\* unchanged; "2021 Land Rover Range Rover Evoque" gives ("Land Rover",
\* "Range Rover Evoque").
Stripped(raw_title) == StripMileageYear(StripQualifier(raw_title))
MatchingMakes(raw_title) ==
    {KNOWN_MAKES_LISTED[n] : n \in {j \in DOMAIN KNOWN_MAKES_LISTED :
        StartsWithMake(Stripped(raw_title), KNOWN_MAKES_LISTED[j])}}
LongestMake(S) == CHOOSE make \in S : \A other \in S : MakeLen(other) <= MakeLen(make)
C18_KnownMakeSplit ==
    (sm_pc = "returned" /\ MatchingMakes(sm_title) # {}) =>
        LET make == LongestMake(MatchingMakes(sm_title))
            rest == SubSeq(Stripped(sm_title), Len(make) + 1, Len(Stripped(sm_title)))
        IN /\ sm_ret = {<<MAKE_NORMALIZATION(make), rest>>}
           /\ sm_ext = 0
           /\ ai_fallback_count = sm_count0
           /\ sm_title = <<"2021", "Land", "Rover", "Range", "Rover", "Evoque">> =>
                  sm_ret = {<< <<"Land", "Rover">>, <<"Range", "Rover", "Evoque">> >>}
\* A title with a qualifier, a mileage and a year, whose rest begins with two
\* known makes, has been split at the longer one, after an earlier call went
\* to the classifier.
C18_Witness ==
    /\ sm_pc = "returned"
    /\ sm_title = <<"One-Owner", "15k-Mile", "2021", "BMW", "Motorrad", "R90">>
    /\ Cardinality(MatchingMakes(sm_title)) = 2
    /\ sm_ret = {<< <<"BMW", "Motorrad">>, <<"R90">> >>}
    /\ ai_fallback_count = 1

\* C20: backfill_manual works through the candidate rows in consecutive chunks
\* of max(floor, 2*C) rows: process_row is called at most once with a row and,
\* when the run is done, exactly once with every candidate row; and no task of
\* a chunk exists before every task of the chunks before it has returned or
\* raised.
ChunkOf(r) == (r - 1) \div Max(ChunkFloor, 2 * bf_concurrency)
TaskExists(r) == bf_row[r] # "none"
TaskEnded(r) == bf_row[r] \in {"ret0", "ret1", "exc"}
C20_ChunkedOnce ==
    /\ \A r \in Rows : bf_disp[r] <= (IF r <= bf_nrows THEN 1 ELSE 0)
    /\ bf_pc = "done" => \A r \in 1..bf_nrows : bf_disp[r] = 1
    /\ \A r1, r2 \in Rows :
          (ChunkOf(r1) < ChunkOf(r2) /\ TaskExists(r2)) => TaskEnded(r1)
\* With concurrency 2 and five rows the first chunk of four rows has ended,
\* one of its tasks with an exception, and the task of the second chunk is in
\* process_row.
C20_Witness ==
    /\ bf_concurrency = 2
    /\ bf_nrows = 5
    /\ bf_i = 4
    /\ \A r \in 1..4 : TaskEnded(r) /\ bf_disp[r] = 1
    /\ bf_row[1] = "exc"
    /\ bf_row[5] = "ai"
    /\ bf_disp[5] = 1

\* C21: for every concurrency C >= 0 the pool maximum is C div 2 clamped to
\* 4..32: between 4 and 32, equal to C div 2 when 8 <= C <= 65, and never
\* below the pool's min_size of 1.
C21_PoolClamp ==
    bf_max_pool # NULL =>
        /\ 4 <= bf_max_pool /\ bf_max_pool <= 32
        /\ (8 <= bf_concurrency /\ bf_concurrency <= 65) =>
               bf_max_pool = bf_concurrency \div 2
        /\ bf_concurrency < 8 => bf_max_pool = 4
        /\ bf_concurrency > 65 => bf_max_pool = 32
        /\ bf_max_pool >= 1
\* A pool has been created for a concurrency above 65, clamped to 32, and
\* its one row is in process_row.
C21_Witness ==
    /\ bf_concurrency = 66
    /\ bf_max_pool = 32
    /\ bf_row[1] = "ai"

\* C22: every generate_content_async call of ai_extract_make_model and of
\* ai_identify_transmission, each retry included, follows a completed
\* _throttle_gemini_call of the same task, and one throttle call admits
\* exactly one request: a task's request begins in the step in which its
\* throttle call stamps _gemini_last_call and returns, and the requests a task
\* has made grow by one exactly when such a request ends.
RequestBegins(t) == pc[t] # "call" /\ pc'[t] = "call"
RequestEnds(t) == pc[t] = "call" /\ pc'[t] # "call"
C22_GatedStep ==
    \A t \in Clients :
        /\ RequestBegins(t) =>
              /\ pc[t] \in {"idle", "backoff", "sleep"}
              /\ pc[t] = "sleep" => now >= wake[t]
              /\ pc[t] # "sleep" => ThrottleWait(gemini_last_call) <= 0
              /\ gemini_last_call' = now
        /\ RequestEnds(t) => cl_ext'[t] = cl_ext[t] + 1
        /\ cl_ext'[t] # cl_ext[t] => (RequestEnds(t) \/ cl_ext'[t] = 0)
C22_Gated == [][C22_GatedStep]_vars
\* The third attempt of ai_identify_transmission has been admitted by the
\* limiter after two requests that gave no label.
C22_Witness ==
    \E t \in Clients :
        /\ cl_fn[t] = "tr"
        /\ pc[t] = "call"
        /\ cl_attempt[t] = 2
        /\ cl_ext[t] = 2
        /\ gemini_last_call = now

\* C23: a cache entry is immutable once written: when _ai_make_model_cache
\* holds a value for a title, no later write changes that value.
C23_WriteOnce ==
    [][\A x \in Inputs : ai_cache[x] # {} => ai_cache'[x] = ai_cache[x]]_vars

\* C24: for listings of one batch with the same unrecognized title, whose
\* tasks started before any of them finished, the classifier service is
\* called at most once for the title.
Requested(x) ==
    {t \in Tasks : cl_fn[t] = "mm" /\ cl_in[t] = x /\ (pc[t] = "call" \/ cl_ext[t] > 0)}
C24_OneRequestPerTitle == \A x \in Inputs : Cardinality(Requested(x)) <= 1

\* C25: with sequential callers every two consecutive returns from
\* _throttle_gemini_call are at least _gemini_interval apart, and
\* _gemini_last_call never decreases.
C25_Spaced ==
    /\ Len(waiters) <= 1
    /\ admit_prev # NULL => admit_prev + gemini_interval <= admit_last
    /\ admit_last # NULL => gemini_last_call = admit_last
C25_Sequential == [](C25_Spaced) /\ [][gemini_last_call' >= gemini_last_call]_vars
\* Three calls in a row have returned, the last one after a sleep that ended
\* exactly one interval after the return before it.
C25_Witness ==
    /\ \A t \in Tasks : pc[t] \in {"call", "done"}
    /\ admit_prev # NULL
    /\ admit_last = admit_prev + gemini_interval
    /\ admit_prev > gemini_interval

\* C26: the wait after a retryable failure (429/5xx, 403, timeout, client
\* error) that another attempt follows is min(DETAIL_BACKOFF_BASE^attempt,
\* cap) plus a jitter of at most 0.5 s, attempt being the index of the failed
\* attempt, for a cap the code uses (8 s or 10 s); so it is at most cap plus
\* the jitter bound.
BackoffWithJitter(attempt, cap, delay) ==
    /\ Min(BackoffPow(attempt), cap) <= delay
    /\ delay <= Min(BackoffPow(attempt), cap) + 500
C26_BackoffDelay ==
    det_pc = "sleep" =>
        \E cap \in {8000, 10000} : BackoffWithJitter(det_attempt, cap, det_delay)

\* C27: the stages of _parse_transmission_from_model_response apply in order
\* and the first that yields a label decides: a strict parse whose
\* transmission is automatic or manual wins over the rest of the text; and
\* when strict parse, slice and bare word yield nothing, the result is the
\* one of the words automatic and manual that occurs when exactly one does,
\* and None when both or neither occur.
OccursAuto(s) == \E i \in 1..Len(s) : HasAutoWord(s[i])
OccursManual(s) == \E i \in 1..Len(s) : HasManualWord(s[i])
C27_StagesInOrder ==
    pr_pc = "returned" =>
        LET s == StripFences(pr_text)
            a == ParseStrict(s)
            b == ParseSlice(s)
            c == ParseBare(s)
        IN /\ (JsonLoads(s).kind \in {"dict", "str"} /\ JsonLoads(s).transmission \in Labels)
                 => pr_label = JsonLoads(s).transmission
           /\ a # NoLabel => pr_label = a
           /\ (a = NoLabel /\ b # NoLabel) => pr_label = b
           /\ (a = NoLabel /\ b = NoLabel /\ c # NoLabel) => pr_label = c
           /\ (a = NoLabel /\ b = NoLabel /\ c = NoLabel) =>
                 /\ (OccursAuto(s) /\ ~OccursManual(s)) => pr_label = "automatic"
                 /\ (OccursManual(s) /\ ~OccursAuto(s)) => pr_label = "manual"
                 /\ (OccursAuto(s) = OccursManual(s)) => pr_label = NoLabel
\* The parser has returned None for a text that is no JSON and no bare label
\* and in which both words occur.
C27_Witness ==
    /\ pr_pc = "returned"
    /\ pr_text = <<"automatic", "manual">>
    /\ pr_label = NoLabel

\* C28: a response that parses strictly as an object whose transmission is a
\* string other than the two labels is read as unknown, whatever else the
\* object holds: the parser returns None.
C28_UnknownIsNone ==
    (/\ pr_pc = "returned"
     /\ JsonLoads(StripFences(pr_text)).kind = "dict"
     /\ JsonLoads(StripFences(pr_text)).transmission \notin Labels \cup {"absent", "nonstring"})
        => pr_label = NoLabel

\* C29: in parse_json_listing zero is a mileage like any other: the detail
\* fetcher is called exactly when extraction from the title and from the
\* excerpt both gave None and the item has a url, and the mileage is the first
\* non-null of title, excerpt and detail page.
C29_ZeroIsMileage ==
    pl_pc \in {"detail", "classify"} =>
        LET t == ExtractMileage(pl_item.title)
            e == ExtractMileage(pl_item.excerpt)
        IN /\ pl_fetches = 1 <=> (t = NULL /\ e = NULL /\ pl_item.url)
           /\ pl_pc = "classify" =>
                 pl_mileage = FirstNonNull(t, FirstNonNull(e, pl_detail))

\* C30: manual is True exactly when the classifier recognized the label
\* manual and False exactly when it recognized automatic, and stays null when
\* the outcome is unknown or the call raised: in the record parse_json_listing
\* returns, and in the column process_row writes, which gets "not auto_flag"
\* of a flag that is not None and no write otherwise.
C30_Polarity ==
    /\ pl_pc = "returned" =>
          /\ pl_manual = 1 <=> pl_label = "manual"
          /\ pl_manual = 0 <=> pl_label = "automatic"
          /\ pl_manual = NULL <=> pl_label \in {NoLabel, "raised"}
    /\ \A r \in Rows :
          /\ bf_manual[r] = 1 <=> (bf_auto[r] = 0 /\ bf_row[r] = "ret1" /\ ~bf_dry_run)
          /\ bf_manual[r] = 0 <=> (bf_auto[r] = 1 /\ bf_row[r] = "ret1" /\ ~bf_dry_run)
          /\ bf_auto[r] = NULL => bf_manual[r] = NULL
\* A listing was returned with manual True after the label manual, and a row
\* whose flag was True (automatic) has manual False in the table.
C30_Witness ==
    /\ pl_pc = "returned"
    /\ pl_label = "manual"
    /\ pl_manual = 1
    /\ bf_auto[1] = 1
    /\ bf_manual[1] = 0

C32_NoKeyNoCall ==
    ~gemini_api_key =>
        /\ \A t \in Clients :
              /\ pc[t] \in {"idle", "returned"}
              /\ cl_ext[t] = 0
              /\ (pc[t] = "returned" /\ cl_fn[t] = "tr") => cl_ret[t] = {TrNone}
              /\ (pc[t] = "returned" /\ cl_fn[t] = "mm") =>
                    /\ cl_ret[t] = {NonePair}
                    /\ ai_cache[cl_in[t]] = {NonePair}
        /\ ai_fallback_count >=
              Cardinality({t \in Clients : pc[t] = "returned" /\ cl_fn[t] = "mm"})
        /\ gemini_last_call = 0
        /\ waiters = <<>>
        /\ \A t \in Tasks : wake[t] = 0
\* Without a key, ai_identify_transmission has returned None before and
\* ai_extract_make_model has just returned (None, None), counted and cached.
C32_Witness ==
    /\ ~gemini_api_key
    /\ \E x \in Inputs : completed["tr"][x] = {TrNone}
    /\ \E t \in Clients :
          /\ pc[t] = "returned" /\ cl_fn[t] = "mm"
          /\ cl_ret[t] = {NonePair}
          /\ ai_cache[cl_in[t]] = {NonePair}
          /\ ai_fallback_count = 1
          /\ gemini_last_call = 0

\* C33: backfill_manual does not deadlock and leaves no pool open: the
\* function ends, and when it has ended, with no rows, after the last chunk or
\* by an exception, the pool is closed if it was created and every worker has
\* been through the gate and, where it had an UPDATE to make, through the
\* pool; meanwhile tasks inside the gate and free slots of the gate add up to
\* the concurrency, so that a task with a connection holds the gate, and no
\* more than max_pool connections are in use.
Ended == bf_pc \in {"done", "crashed"}
InsideGate == {r \in Rows : bf_row[r] \in {"ai", "db", "conn"}}
C33_GateAndPool ==
    /\ bf_pc = "gather" => Cardinality(InsideGate) + bf_sem = bf_concurrency
    /\ bf_max_pool # NULL => InUse <= bf_max_pool
    /\ Ended =>
          /\ bf_pool # "open"
          /\ \A r \in Rows : r <= bf_nrows => bf_row[r] \in {"ret0", "ret1", "exc"}
          /\ \A r \in Rows : bf_row[r] = "ret1" => (bf_dry_run \/ bf_manual[r] # NULL)
C33_NoDeadlock == []C33_GateAndPool /\ <>Ended
\* With concurrency 8 and a pool of 4, four rows hold a connection and a
\* fifth, inside the gate, waits for one.
C33_Witness ==
    /\ bf_concurrency = 8
    /\ bf_max_pool = 4
    /\ InUse = 4
    /\ \E r \in Rows : bf_row[r] = "db"

\* C34: total_ai_fallbacks and the counter together hold every call of
\* ai_extract_make_model begun so far exactly once, the counter is read and
\* reset only in steps with no parse_json_listing task created or running,
\* and when the year loop has completed the counter is 0 and
\* total_ai_fallbacks is the number of calls made over all years.
TasksInFlight == {i \in Slots : tl_task[i] \in {"created", "running"}}
C34_ExactTotal ==
    /\ total_ai_fallbacks + ai_fallback_count = tl_calls
    /\ tl_pc = "done" => (ai_fallback_count = 0 /\ total_ai_fallbacks = tl_calls)
C34_ReadWhenIdle ==
    [][(total_ai_fallbacks' # total_ai_fallbacks \/ ai_fallback_count' < ai_fallback_count)
          => TasksInFlight = {}]_vars
C34_GrandTotal == []C34_ExactTotal /\ C34_ReadWhenIdle
\* The year loop has completed with calls counted in two years.
C34_Witness ==
    /\ tl_pc = "done"
    /\ tl_year = FIRST_YEAR + 2
    /\ total_ai_fallbacks = 3
    /\ tl_calls = 3

C9_NoRunWithoutKey ==
    ~gemini_api_key => (~in_fetched /\ in_enriched = {} /\ DOMAIN store = {})

\* C10: neither classifier function raises, whatever the service call gives:
\* ai_identify_transmission returns True, False or None and
\* ai_extract_make_model returns a (make, model) pair, (None, None) included.
MakeModelPairs == {<<d.make, d.model>> : d \in JsonDicts} \cup {NonePair}
C10_NeverRaises ==
    \A t \in Clients :
        /\ pc[t] # "raised"
        /\ pc[t] = "returned" =>
             /\ cl_ret[t] # {}
             /\ cl_fn[t] = "tr" => cl_ret[t] \subseteq {TrTrue, TrFalse, TrNone}
             /\ cl_fn[t] = "mm" => cl_ret[t] \subseteq MakeModelPairs
\* ai_identify_transmission has returned None after three service calls, and
\* ai_extract_make_model has returned (None, None) after its one service call.
C10_Witness ==
    \E t \in Clients :
        /\ pc[t] = "returned"
        /\ gemini_api_key
        /\ cl_fn[t] = "mm" /\ cl_ext[t] = 1 /\ cl_ret[t] = {NonePair}
        /\ completed["tr"][cl_in[t]] = {TrNone}

\* C5: when every attempt ends in a retryable outcome, the fetcher issues exactly
\* DETAIL_MAX_RETRIES GET requests, then returns None, and raises nothing.
AllRetryable == \A i \in 1..Len(det_hist) : det_hist[i] \in Retryable
C5_BoundedRetry ==
    AllRetryable =>
        /\ det_gets <= DETAIL_MAX_RETRIES
        /\ det_result \in {"pending", "none"}
        /\ det_pc = "done" => (det_gets = DETAIL_MAX_RETRIES /\ det_result = "none")
\* The fetcher has finished on a URL that answered 503 every time, and on one
\* that was blocked (403) every time.
C5_Witness ==
    /\ det_pc = "done"
    /\ Len(det_hist) = DETAIL_MAX_RETRIES
    /\ \/ \A i \in 1..Len(det_hist) : det_hist[i] = "503"
       \/ \A i \in 1..Len(det_hist) : det_hist[i] = "403"

\* C11: an invocation of either classifier function makes at most 3 external
\* calls; it sleeps 0.5 s after the first and 1.0 s after the second call that
\* gave nothing recognized; it makes no call after one that gave something
\* recognized; and when every call raised or gave nothing recognized it has
\* made exactly 3 calls before it returns unknown.
Unknown(f) == IF f = "tr" THEN TrNone ELSE NonePair
C11_RetryWithBackoff ==
    \A t \in Clients :
        /\ cl_ext[t] <= 3
        /\ pc[t] = "backoff" =>
             cl_delay[t] = (IF cl_attempt[t] = 0 THEN 500 ELSE 1000)
        /\ cl_bad[t] < cl_ext[t] => (pc[t] = "returned" /\ cl_bad[t] = cl_ext[t] - 1)
        /\ (pc[t] = "returned" /\ cl_ext[t] > 0 /\ cl_bad[t] = cl_ext[t]) =>
             (cl_ext[t] = 3 /\ cl_ret[t] = {Unknown(cl_fn[t])})
\* The same, of ai_identify_transmission alone.
C11_TransmissionRetries ==
    \A t \in Clients : cl_fn[t] = "tr" =>
        /\ cl_ext[t] <= 3
        /\ pc[t] = "backoff" =>
             cl_delay[t] = (IF cl_attempt[t] = 0 THEN 500 ELSE 1000)
        /\ cl_bad[t] < cl_ext[t] => (pc[t] = "returned" /\ cl_bad[t] = cl_ext[t] - 1)
        /\ (pc[t] = "returned" /\ cl_ext[t] > 0 /\ cl_bad[t] = cl_ext[t]) =>
             (cl_ext[t] = 3 /\ cl_ret[t] = {TrNone})

\* C12: the fallback-usage counter equals the number of classifier invocations,
\* of ai_extract_make_model and of ai_identify_transmission, cache hit or
\* miss, begun since the last reset (and 0 after a reset).
C12_CountsEveryInvocation == ai_fallback_count = cl_since

\* C13: whatever the attempts end in among 2xx, 429/5xx, 403, another status,
\* timeout, client error and redirect loop, the fetcher issues at most
\* DETAIL_MAX_RETRIES GET requests and has ended after the last of them, issues
\* none after a 2xx response, and returns a mileage or None, never raising.
ClaimedOutcomes == Outcomes \ {"other_exception"}
Status2xx == {"200_mileage", "200_no_mileage", "200_empty"}
C13_NeverFatal ==
    (\A i \in 1..Len(det_hist) : det_hist[i] \in ClaimedOutcomes) =>
        /\ det_gets <= DETAIL_MAX_RETRIES
        /\ det_gets = Len(det_hist)
        /\ det_gets = DETAIL_MAX_RETRIES => det_pc = "done"
        /\ \A i \in 1..Len(det_hist) :
             det_hist[i] \in Status2xx => (i = Len(det_hist) /\ det_pc = "done")
        /\ det_result \in {"pending", "none", "mileage"}
        /\ det_pc = "done" <=> det_result # "pending"
\* The fetcher has returned the mileage of a page it got at the third attempt,
\* after a 503 and a timeout.
C13_Witness ==
    /\ det_pc = "done"
    /\ det_hist = <<"503", "timeout", "200_mileage">>
    /\ det_result = "mileage"

\* C14: an attempt that hits a redirect loop is the last, whatever its number:
\* no request and no backoff sleep follows it, and the fetcher returns None.
C14_RedirectAborts ==
    \A i \in 1..Len(det_hist) :
        det_hist[i] = "redirect_loop" =>
            /\ i = Len(det_hist)
            /\ det_gets = i
            /\ det_sleeps = i - 1
            /\ det_pc = "done"
            /\ det_result = "none"
\* The first attempt was answered 503 and retried, the second hit a redirect
\* loop.
C14_Witness ==
    /\ det_hist = <<"503", "redirect_loop">>
    /\ det_pc = "done"
    /\ det_sleeps = 1

\* C15: after an upsert that met a stored row, url, title, year, make, model,
\* original_owner and excerpt of the row are the incoming record's, null or
\* not, whatever the row held.
C15_OverwriteAlways ==
    \A r \in lastRec :
        prevRow # {} =>
            \A c \in OverwriteCols : store[r.source_listing_id][c] = r[c]
\* A record with a null title has met a row with a title, and the stored title
\* is null now while the stored mileage is kept.
C15_Witness ==
    \E r \in lastRec : \E o \in prevRow :
        /\ r.title = NULL /\ o.title # NULL
        /\ r.url # NULL /\ o.url # NULL /\ r.url # o.url
        /\ store[r.source_listing_id].title = NULL
        /\ store[r.source_listing_id].url = r.url

\* C16: an ai_extract_make_model call on a title a call had already ended on,
\* whatever that one ended in, returns in its first step what the cache holds,
\* with no external call, no sleep and _gemini_last_call unchanged.
C16_NoLimiterOnHit ==
    \A t \in Clients :
        (cl_fn[t] = "mm" /\ cl_prior[t] # {}) => (pc[t] = "returned" /\ cl_ext[t] = 0)
C16_ServedFromCache ==
    \A t \in Clients :
        (pc[t] = "idle" /\ pc'[t] # "idle" /\ cl_fn'[t] = "mm"
            /\ completed["mm"][cl_in'[t]] # {}) =>
            /\ pc'[t] = "returned"
            /\ cl_ret'[t] = ai_cache[cl_in'[t]]
            /\ gemini_last_call' = gemini_last_call
            /\ wake' = wake
C16_CachedOutcome == [](C16_NoLimiterOnHit) /\ [][C16_ServedFromCache]_vars
\* With a key, a title whose earlier call ended unknown is asked again and the
\* call has returned (None, None) with no external call.
C16_Witness ==
    \E t \in Clients :
        /\ gemini_api_key
        /\ pc[t] = "returned" /\ cl_fn[t] = "mm"
        /\ cl_prior[t] = {NonePair}
        /\ cl_ret[t] = {NonePair}
        /\ cl_ext[t] = 0

====
